---- MODULE Spec2Model ----
(***************************************************************************)
(* Long-video segmentation pipeline of ytChatbot: the chunk scheduler      *)
(* (segment_long_video), the segment merge engine (merge_similar_segments),*)
(* the coverage verifier (_verify_segmentation_coverage), the persistence  *)
(* layer (VideoDatabase) and the /segment endpoint.                        *)
(*                                                                         *)
(* Python strings are modelled as sequences of one-character strings, so   *)
(* that lower(), substring tests, len() and strip() are computed, not      *)
(* assumed.  Times are integer seconds.                                    *)
(***************************************************************************)
EXTENDS Integers, Sequences, FiniteSets, TLC

VARIABLES
    m_pc,       \* merge harness: "start" | "once" | "twice"
    m_in,       \* the list handed to merge_similar_segments
    m_out1,     \* merge_similar_segments(m_in)
    m_out2,     \* merge_similar_segments(m_out1)
    \* one call of segment_long_video (or of segment_video)
    l_pc,                   \* "idle" | "call" | "short" | "loop" | "done"
    video_id,
    transcript_snippets,
    chunk_duration,
    overlap_duration,
    total_duration,
    chunk_start,
    chunk_number,
    total_chunks,
    last_processed_chunk,
    overall_topic,
    all_segments,
    calls,                  \* history: the adapter calls made, in order
    l_result,               \* what the call returned or raised
    db,                     \* the VideoDatabase: videos, segmentations, segments
    cov_pc,                 \* coverage harness: "idle" | "start" | "done"
    cov_verdict,            \* what _verify_segmentation_coverage returned
    \* the /segment endpoint
    e_pc,                   \* "idle" | "segmenting"
    req,                    \* the request being served
    resp,                   \* the last response
    n_requests,             \* requests received so far
    youtube,                \* what getTranscript gives for the video
    db_log,                 \* history: the save_segmentation calls made directly
    \* one call of a function on its own
    f_pc,                   \* "idle" | "start" | "done"
    f_in,                   \* its arguments
    f_out,                  \* what it returned
    \* get_db called from request threads
    _db_instance,           \* the module global: None or the instance stored
    instances,              \* VideoDatabase instances constructed so far
    t_pc,                   \* per thread: "idle" | "test" | "construct" | "assign" | "return"
    t_new,                  \* per thread: the instance it constructed, not yet stored
    t_calls,                \* per thread: get_db calls it has finished
    returned,               \* history: the instance each finished call returned
    \* save_segmentation called from request threads on the shared connection
    pending,                \* the tables as the connection sees them: db plus its open transaction
    s_pc,                   \* per thread: "idle" | "insert"
    s_call,                 \* per thread: the arguments and progress of its call
    s_log                   \* history: the finished calls and what they returned

mvars == <<m_pc, m_in, m_out1, m_out2>>

argvars == <<video_id, transcript_snippets, chunk_duration, overlap_duration>>

loopvars == <<total_duration, chunk_start, chunk_number, total_chunks,
              last_processed_chunk, overall_topic, all_segments>>

lvars == <<l_pc, argvars, loopvars, calls, l_result>>

cvars == <<cov_pc, cov_verdict>>

evars == <<e_pc, req, resp, n_requests, youtube>>

hvars == <<db_log, f_pc, f_in, f_out>>

gvars == <<_db_instance, instances, t_pc, t_new, t_calls, returned>>

kvars == <<pending, s_pc, s_call, s_log>>

\* what the merge harness and the scheduler each leave alone
not_m == <<lvars, db, cvars, evars, hvars, gvars, kvars>>
not_l == <<mvars, db, cvars, evars, hvars, gvars, kvars>>

vars == <<mvars, lvars, db, cvars, evars, hvars, gvars, kvars>>

(***************************************************************************)
(* Strings                                                                 *)
(***************************************************************************)
UpperChars == <<"A","B","C","D","E","F","G","H","I","J","K","L","M",
                "N","O","P","Q","R","S","T","U","V","W","X","Y","Z">>
LowerChars == <<"a","b","c","d","e","f","g","h","i","j","k","l","m",
                "n","o","p","q","r","s","t","u","v","w","x","y","z">>

\* str.lower() on one character
LowerChar(c) ==
    IF \E i \in 1..Len(UpperChars) : UpperChars[i] = c
    THEN LowerChars[CHOOSE i \in 1..Len(UpperChars) : UpperChars[i] = c]
    ELSE c

\* str.lower()
Lower(s) == [i \in 1..Len(s) |-> LowerChar(s[i])]

\* needle in hay
Contains(hay, needle) ==
    \E i \in 0..(Len(hay) - Len(needle)) :
        SubSeq(hay, i + 1, i + Len(needle)) = needle

\* str.strip(): the model's only whitespace character is the blank
RECURSIVE LStrip(_)
LStrip(s) == IF s # <<>> /\ Head(s) = " " THEN LStrip(Tail(s)) ELSE s
RECURSIVE RStrip(_)
RStrip(s) ==
    IF s # <<>> /\ s[Len(s)] = " " THEN RStrip(SubSeq(s, 1, Len(s) - 1)) ELSE s
Strip(s) == RStrip(LStrip(s))

\* the elements of a list, as a set
Range(s) == {s[i] : i \in 1..Len(s)}

(***************************************************************************)
(* are_topics_similar                                                      *)
(***************************************************************************)
\* set(topic.lower() for topic in seg.key_topics)
LowerTopics(seg) == {Lower(t) : t \in Range(seg.key_topics)}

\* threshold=0.5 of the call in merge_similar_segments, in percent
TopicThresholdPct == 50

\* similarity >= threshold, for intersection / union with union > 0
SimilarByShareOfFirst(seg1, seg2, thresholdPct) ==
    LET topics1 == LowerTopics(seg1)
        topics2 == LowerTopics(seg2)
    IN  IF topics1 = {} \/ topics2 = {}
        THEN FALSE
        ELSE Cardinality(topics1 \cap topics2) * 100
                 >= thresholdPct * Cardinality(topics1)

are_topics_similar(seg1, seg2, thresholdPct) ==
    LET topics1 == LowerTopics(seg1)
        topics2 == LowerTopics(seg2)
        intersection == Cardinality(topics1 \cap topics2)
        union == Cardinality(topics1 \cup topics2)
    IN  IF topics1 = {} \/ topics2 = {}
        THEN FALSE
        ELSE IF union > 0
             THEN intersection * 100 >= thresholdPct * union
             ELSE 0 >= thresholdPct

(***************************************************************************)
(* merge_similar_segments                                                  *)
(***************************************************************************)
\* similarity_threshold: max gap in seconds between segments to merge
SimilarityThreshold == 300

ContinuationMarkers ==
    { <<"c","o","n","t","i","n","u","e","d">>,
      <<"c","o","n","t","i","n","u","a","t","i","o","n">>,
      <<"p","a","r","t"," ","2">>,
      <<"p","a","r","t"," ","t","w","o">>,
      <<"p","a","r","t"," ","3">>,
      <<"(","c","o","n","t">>,
      <<"-"," ","c","o","n","t">> }

has_continuation_marker(next_seg) ==
    \E marker \in ContinuationMarkers : Contains(Lower(next_seg.title), marker)

\* sorted(segments, key=lambda s: s.start_time): a stable sort
RECURSIVE InsertByStart(_, _)
InsertByStart(sorted, seg) ==
    IF sorted = <<>> THEN <<seg>>
    ELSE IF sorted[Len(sorted)].start_time <= seg.start_time
         THEN Append(sorted, seg)
         ELSE Append(InsertByStart(SubSeq(sorted, 1, Len(sorted) - 1), seg),
                     sorted[Len(sorted)])

RECURSIVE SortByStartFrom(_, _)
SortByStartFrom(done, rest) ==
    IF rest = <<>> THEN done
    ELSE SortByStartFrom(InsertByStart(done, Head(rest)), Tail(rest))

NoSort(segments) == segments

SortByStart(segments) == SortByStartFrom(<<>>, segments)

\* list(set(a + b)): the distinct topics; Python leaves the order of the
\* resulting list unspecified, first-occurrence order stands for it and the
\* properties below compare key_topics as sets
RECURSIVE Dedup(_)
Dedup(s) ==
    IF s = <<>> THEN <<>>
    ELSE LET r == Dedup(SubSeq(s, 1, Len(s) - 1))
         IN  IF s[Len(s)] \in Range(r) THEN r ELSE Append(r, s[Len(s)])

\* the VideoSegment built when current and next_seg are combined
Combine(current, next_seg) ==
    [ title            |-> current.title,
      summary          |-> Strip(current.summary \o <<" ">> \o next_seg.summary),
      start_time       |-> current.start_time,
      end_time         |-> next_seg.end_time,
      key_topics       |-> Dedup(current.key_topics \o next_seg.key_topics),
      difficulty_level |-> current.difficulty_level ]

\* len(seg.summary) + len(seg.key_topics)
SummaryLengthOnly(seg) == Len(seg.summary)

Richness(seg) == Len(seg.summary) + Len(seg.key_topics)

\* the decision of the loop body once the segments do not overlap
CombineWhenAdjacentAndSimilar(current, next_seg) ==
    /\ next_seg.start_time - current.end_time <= SimilarityThreshold
    /\ are_topics_similar(current, next_seg, TopicThresholdPct)

ShouldCombine(current, next_seg) ==
    LET time_gap == next_seg.start_time - current.end_time
        is_adjacent == time_gap <= SimilarityThreshold
        is_similar == are_topics_similar(current, next_seg, TopicThresholdPct)
    IN  (is_adjacent /\ is_similar) \/ has_continuation_marker(next_seg)

\* the for loop over sorted_segments[1:], with its final merged.append(current)
RECURSIVE MergeLoop(_, _, _)
MergeLoop(rest, current, merged) ==
    IF rest = <<>> THEN Append(merged, current)
    ELSE LET next_seg == Head(rest)
             time_gap == next_seg.start_time - current.end_time
         IN  IF time_gap < 0
             THEN IF Richness(next_seg) > Richness(current)
                  THEN MergeLoop(Tail(rest), next_seg, merged)
                  ELSE MergeLoop(Tail(rest), current, merged)
             ELSE IF ShouldCombine(current, next_seg)
                  THEN MergeLoop(Tail(rest), Combine(current, next_seg), merged)
                  ELSE MergeLoop(Tail(rest), next_seg, Append(merged, current))

merge_similar_segments(segments) ==
    IF Len(segments) < 2 THEN segments
    ELSE LET sorted_segments == SortByStart(segments)
         IN  MergeLoop(Tail(sorted_segments), Head(sorted_segments), <<>>)

(***************************************************************************)
(* Values                                                                  *)
(***************************************************************************)
\* VideoSegment
Seg(title, s, e, summary, topics, diff) ==
    [ title |-> title, summary |-> summary, start_time |-> s, end_time |-> e,
      key_topics |-> topics, difficulty_level |-> diff ]

\* VideoSegmentation
VideoSegmentation(vid, segments, total, topic) ==
    [ video_id |-> vid, segments |-> segments, total_segments |-> total,
      overall_topic |-> topic ]

\* a transcript snippet with .text, .start, .duration
Snippet(text, start, duration) ==
    [ text |-> text, start |-> start, duration |-> duration ]

Min(a, b) == IF a <= b THEN a ELSE b

(***************************************************************************)
(* format_timestamp and the rendering of integers                          *)
(***************************************************************************)
DigitChars == <<"0","1","2","3","4","5","6","7","8","9">>

\* str(n) / f"{n}" for an integer n >= 0
RECURSIVE IntToStr(_)
IntToStr(n) ==
    IF n < 10 THEN <<DigitChars[n + 1]>>
    ELSE Append(IntToStr(n \div 10), DigitChars[(n % 10) + 1])

\* f"{n:02d}"
Pad2(n) == IF n < 10 THEN <<"0">> \o IntToStr(n) ELSE IntToStr(n)

format_timestamp(seconds) ==
    LET hours == seconds \div 3600
        minutes == (seconds % 3600) \div 60
        secs == seconds % 60
    IN  IF hours > 0
        THEN Pad2(hours) \o <<":">> \o Pad2(minutes) \o <<":">> \o Pad2(secs)
        ELSE Pad2(minutes) \o <<":">> \o Pad2(secs)

(***************************************************************************)
(* segment_long_video                                                      *)
(***************************************************************************)
\* signature defaults of segment_long_video
DefaultChunkDuration == 3600
DefaultOverlapDuration == 300

LongVideoContent ==
    <<"L","o","n","g"," ","v","i","d","e","o"," ","c","o","n","t","e","n","t">>

NoSnippetsMessage ==
    <<"N","o"," ","t","r","a","n","s","c","r","i","p","t"," ","s","n","i","p",
      "p","e","t","s"," ","p","r","o","v","i","d","e","d">>

\* int((total_duration - overlap_duration) / (chunk_duration - overlap_duration)) + 1
TotalChunksWithoutFirst(total, chunk, overlap) ==
    (total - overlap) \div (chunk - overlap)

TotalChunks(total, chunk, overlap) ==
    ((total - overlap) \div (chunk - overlap)) + 1

\* if total_duration <= chunk_duration: return segment_video(...)
FastPathStrictlyShorter(total, chunk) == total < chunk

TakesFastPath(total, chunk) == total <= chunk

\* min(chunk_start + chunk_duration, total_duration)
ChunkEndUnclipped(start, chunk, total) == start + chunk

ChunkEnd(start, chunk, total) == Min(start + chunk, total)

\* chunk_start = chunk_end - overlap_duration
NextChunkStartWithoutOverlap(chunk_end, overlap) == chunk_end

NextChunkStart(chunk_end, overlap) == chunk_end - overlap

\* chunk_number += 1
SameChunkNumber(n) == n

NextChunkNumber(n) == n + 1

\* f"{video_id} (part {chunk_number})"
PartLabel(vid, n) ==
    vid \o <<" ","(","p","a","r","t"," ">> \o IntToStr(n) \o <<")">>

\* the test that decides whether a returned segment is appended to all_segments
KeepSegmentStrictlyAfter(n, seg, start, overlap) ==
    IF n = 1 THEN TRUE ELSE seg.start_time > start + overlap

KeepSegment(n, seg, start, overlap) ==
    IF n = 1 THEN TRUE
    ELSE LET overlap_boundary == start + overlap
         IN  seg.start_time >= overlap_boundary

\* the segments of chunk_result that are appended to all_segments
KeptSegments(n, segments, start, overlap) ==
    LET Test(seg) == KeepSegment(n, seg, start, overlap)
    IN  SelectSeq(segments, Test)

\* 'rate' in error_msg or 'limit' in error_msg or '429' in error_msg
NeverRateLimit(message) == FALSE

IsRateLimitMessage(message) ==
    LET error_msg == Lower(message)
    IN  \/ Contains(error_msg, <<"r","a","t","e">>)
        \/ Contains(error_msg, <<"l","i","m","i","t">>)
        \/ Contains(error_msg, <<"4","2","9">>)

\* f"{overall_topic} [Partial: {last}/{total} chunks processed up to {ts}]"
PartialAnnotation(last, total, segments) ==
    LET processed_duration ==
            format_timestamp(IF segments # <<>>
                             THEN segments[Len(segments)].end_time ELSE 0)
    IN  <<" ","[","P","a","r","t","i","a","l",":"," ">>
        \o IntToStr(last) \o <<"/">> \o IntToStr(total)
        \o <<" ","c","h","u","n","k","s"," ","p","r","o","c","e","s","s","e","d",
             " ","u","p"," ","t","o"," ">>
        \o processed_duration \o <<"]">>

\* the condition under which the annotation is appended
NeverPartial(last, total) == FALSE

IsPartial(last, total) == last < total

\* the statements after the loop: merge, annotate, build the result
FinishLong(vid, segments, topic, last, total) ==
    LET merged_segments == merge_similar_segments(segments)
        final_topic == IF IsPartial(last, total)
                       THEN topic \o PartialAnnotation(last, total, segments)
                       ELSE topic
    IN  VideoSegmentation(vid, merged_segments, Len(merged_segments), final_topic)

Returned(value) == [kind |-> "return", value |-> value]
Raised(error) == [kind |-> "raise", error |-> error]

(***************************************************************************)
(* The segmentation adapter (create_segmentation_chain(...).invoke): an    *)
(* external service, modelled by the outcomes it can have                  *)
(***************************************************************************)
Text == <<"h","i">>

Vid1 == <<"v","i","d","e","o","_","0","0","0","0","1">>

TitleA == <<"A">>
TitleB == <<"B">>
TitleBContinued == <<"B"," ","c","o","n","t","i","n","u","e","d">>
TitlePart2 == <<"C"," ","P","A","R","T"," ","2">>

\* the overall_topic the adapter reports for chunk n (0: a whole short video)
AdapterTopic(n) == <<"t">> \o IntToStr(n)

\* the segment lists the adapter may return for the window [start, end] of
\* chunk n: nothing; one segment over the whole window; a segment inside the
\* overlap region followed by one that starts exactly at the overlap boundary
AdapterSegments(n, start, end, overlap) ==
    LET boundary == start + overlap
        whole == Seg(TitleA, start, end, <<"a","b">>, << <<"x">> >>, "medium")
        head == Seg(TitleA, start, boundary, <<"a">>, << <<"x">> >>, "easy")
        tail == Seg(TitleB, boundary, end, <<"a","b","c">>, << <<"z">> >>, "hard")
    IN  { <<>>, <<whole>>,
          IF overlap > 0 /\ boundary < end THEN <<head, tail>> ELSE <<tail>> }

\* the adapter's answer is the language model's completion parsed into a
\* VideoSegmentation, whose total_segments field is validated as an integer
\* only: besides the answers that count their segments, one that reports
\* one segment more than it lists
AdapterResults(vid, n, start, end, overlap) ==
    { VideoSegmentation(vid, segs, Len(segs), AdapterTopic(n)) :
        segs \in AdapterSegments(n, start, end, overlap) }
    \cup
    { VideoSegmentation(vid,
          << Seg(TitleA, start, end, <<"a","b">>, << <<"x">> >>, "medium") >>,
          2, AdapterTopic(n)) }
    \cup
    \* for a whole short video, an answer that lists the same span twice
    ( IF n = 0
      THEN { VideoSegmentation(vid,
               << Seg(TitleA, start, end, <<"a","b">>, << <<"x">> >>, "medium"),
                  Seg(TitleA, start, end, <<"a","b">>, << <<"x">> >>, "medium") >>,
               2, AdapterTopic(n)) }
      ELSE {} )

\* the exceptions an adapter call may raise: the provider's rate-limit error,
\* the ValueError of create_segmentation_chain without an API key, and the
\* provider's rejection of a completion it could not turn into JSON
RateLimitError ==
    [ kind |-> "rate_limit",
      message |-> <<"E","r","r","o","r"," ","c","o","d","e",":"," ","4","2","9">> ]
MissingKeyError ==
    [ kind |-> "other",
      message |-> <<"G","R","O","Q","_","A","P","I","_","K","E","Y"," ","n","o",
                    "t"," ","f","o","u","n","d"," ","i","n"," ","e","n","v","i",
                    "r","o","n","m","e","n","t"," ","o","r"," ","p","r","o","v",
                    "i","d","e","d">> ]
GenerateError ==
    [ kind |-> "other",
      message |-> <<"F","a","i","l","e","d"," ","t","o"," ","g","e","n","e","r",
                    "a","t","e"," ","J","S","O","N">> ]
EmptyInputAsRateLimit ==
    [ kind |-> "rate_limit",
      message |-> <<"E","r","r","o","r"," ","c","o","d","e",":"," ","4","2","9">> ]

EmptyInputError == [ kind |-> "empty_input", message |-> NoSnippetsMessage ]
NoError == [ kind |-> "none", message |-> <<>> ]

AdapterFailures == {RateLimitError, MissingKeyError, GenerateError}

CallRecord(n, label, start, end, ok, result, error) ==
    [ chunk |-> n, label |-> label, start |-> start, end |-> end, ok |-> ok,
      segments |-> result.segments, topic |-> result.overall_topic,
      total_segments |-> result.total_segments,
      result_video_id |-> result.video_id,
      error |-> error ]

NoResult == VideoSegmentation(<<>>, <<>>, 0, <<>>)

(***************************************************************************)
(* segment_long_video, one action per adapter call                         *)
(***************************************************************************)
\* from the call to the first adapter call: the empty-input check, the
\* duration, the choice of the fast path, the initialisation of the loop
Enter ==
    /\ l_pc = "call"
    /\ IF transcript_snippets = <<>>
       THEN /\ l_pc' = "done"
            /\ l_result' = Raised(EmptyInputError)
            /\ UNCHANGED loopvars
       ELSE LET last == transcript_snippets[Len(transcript_snippets)]
                total == last.start + last.duration
            IN  /\ total_duration' = total
                /\ UNCHANGED l_result
                /\ IF TakesFastPath(total, chunk_duration)
                   THEN /\ l_pc' = "short"
                        /\ UNCHANGED <<chunk_start, chunk_number, total_chunks,
                                       last_processed_chunk, overall_topic,
                                       all_segments>>
                   ELSE /\ l_pc' = "loop"
                        /\ all_segments' = <<>>
                        /\ chunk_start' = 0
                        /\ chunk_number' = 1
                        /\ total_chunks' =
                              TotalChunks(total, chunk_duration, overlap_duration)
                        /\ last_processed_chunk' = 0
                        /\ overall_topic' = LongVideoContent
    /\ UNCHANGED <<argvars, calls, not_l>>

\* segment_video: the adapter answers, the answer is returned as it is
ShortOk ==
    /\ l_pc = "short"
    /\ \E result \in AdapterResults(video_id, 0, 0, total_duration, 0) :
          /\ calls' = Append(calls, CallRecord(0, video_id, 0, total_duration,
                                               TRUE, result, NoError))
          /\ l_result' = Returned(result)
    /\ l_pc' = "done"
    /\ UNCHANGED <<argvars, loopvars, not_l>>

\* segment_video: the adapter raises, nothing catches it
ShortFail ==
    /\ l_pc = "short"
    /\ \E error \in AdapterFailures :
          /\ calls' = Append(calls, CallRecord(0, video_id, 0, total_duration,
                                               FALSE, NoResult, error))
          /\ l_result' = Raised(error)
    /\ l_pc' = "done"
    /\ UNCHANGED <<argvars, loopvars, not_l>>

\* one iteration of the while loop in which the adapter answers; when the
\* loop ends with it, the statements after the loop run as well
ChunkOk ==
    /\ l_pc = "loop"
    /\ chunk_start < total_duration
    /\ LET chunk_end == ChunkEnd(chunk_start, chunk_duration, total_duration)
       IN  \E chunk_result \in AdapterResults(video_id, chunk_number, chunk_start,
                                              chunk_end, overlap_duration) :
             LET topic == IF chunk_number = 1 THEN chunk_result.overall_topic
                          ELSE overall_topic
                 segments == all_segments \o
                             KeptSegments(chunk_number, chunk_result.segments,
                                          chunk_start, overlap_duration)
                 next_start == NextChunkStart(chunk_end, overlap_duration)
                 leaves == chunk_end >= total_duration
                           \/ ~(next_start < total_duration)
             IN  /\ calls' = Append(calls,
                        CallRecord(chunk_number, PartLabel(video_id, chunk_number),
                                   chunk_start, chunk_end, TRUE, chunk_result,
                                   NoError))
                 /\ overall_topic' = topic
                 /\ all_segments' = segments
                 /\ last_processed_chunk' = chunk_number
                 /\ chunk_start' = next_start
                 /\ chunk_number' = NextChunkNumber(chunk_number)
                 /\ IF leaves
                    THEN /\ l_pc' = "done"
                         /\ l_result' = Returned(FinishLong(video_id, segments,
                                            topic, chunk_number, total_chunks))
                    ELSE /\ l_pc' = "loop"
                         /\ UNCHANGED l_result
    /\ UNCHANGED <<argvars, total_duration, total_chunks, not_l>>

\* one iteration of the while loop in which the adapter raises: a message
\* that reads as a rate limit breaks the loop and the statements after the
\* loop run; any other exception is re-raised
ChunkFail ==
    /\ l_pc = "loop"
    /\ chunk_start < total_duration
    /\ LET chunk_end == ChunkEnd(chunk_start, chunk_duration, total_duration)
       IN  \E error \in AdapterFailures :
             /\ calls' = Append(calls,
                    CallRecord(chunk_number, PartLabel(video_id, chunk_number),
                               chunk_start, chunk_end, FALSE, NoResult, error))
             /\ IF IsRateLimitMessage(error.message)
                THEN l_result' = Returned(FinishLong(video_id, all_segments,
                                     overall_topic, last_processed_chunk,
                                     total_chunks))
                ELSE l_result' = Raised(error)
    /\ l_pc' = "done"
    /\ UNCHANGED <<argvars, loopvars, not_l>>

LongNext == Enter \/ ShortOk \/ ShortFail \/ ChunkOk \/ ChunkFail

(***************************************************************************)
(* VideoDatabase: the tables as lists of rows.  json.dumps / json.loads of *)
(* the stored dictionaries keeps their keys, numbers, strings and lists,   *)
(* so a stored dictionary is read back as the record that was built        *)
(***************************************************************************)
None == [none |-> TRUE]
Some(n) == [some |-> n]

\* the truth value Python gives an Optional[int]
Truthy(opt) == opt # None /\ opt.some # 0

EmptyDb == [videos |-> <<>>, segmentations |-> <<>>, segments |-> <<>>]

\* VideoDatabase.save_video: insert, or update the row of the same video_id
save_video(d, vid, snippets, title) ==
    LET duration == IF snippets # <<>>
                    THEN snippets[Len(snippets)].start
                         + snippets[Len(snippets)].duration
                    ELSE 0
        transcript_data ==
            [i \in 1..Len(snippets) |->
                [text |-> snippets[i].text, start |-> snippets[i].start,
                 duration |-> snippets[i].duration]]
        row == [video_id |-> vid, title |-> title, duration_seconds |-> duration,
                snippet_count |-> Len(snippets), transcript |-> transcript_data]
        exists == \E i \in 1..Len(d.videos) : d.videos[i].video_id = vid
    IN  [d EXCEPT !.videos =
            IF exists
            THEN [i \in 1..Len(d.videos) |->
                     IF d.videos[i].video_id = vid THEN row ELSE d.videos[i]]
            ELSE Append(d.videos, row)]

\* VideoDatabase.get_video: the row of video_id, or None
get_video(d, vid) ==
    LET IsVid(row) == row.video_id = vid
        found == SelectSeq(d.videos, IsVid)
    IN  IF found = <<>> THEN None ELSE found[1]

\* the processing status save_segmentation stores
ProcessingStatus(chunks_processed, chunks_total) ==
    IF Truthy(chunks_processed) /\ Truthy(chunks_total)
       /\ chunks_processed.some < chunks_total.some
    THEN "partial" ELSE "complete"

\* the dictionary save_segmentation serialises
SegmentationData(result) ==
    [ video_id |-> result.video_id,
      overall_topic |-> result.overall_topic,
      total_segments |-> result.total_segments,
      segments |->
        [i \in 1..Len(result.segments) |->
            [ title |-> result.segments[i].title,
              start_time |-> result.segments[i].start_time,
              end_time |-> result.segments[i].end_time,
              summary |-> result.segments[i].summary,
              key_topics |-> result.segments[i].key_topics,
              difficulty_level |-> result.segments[i].difficulty_level ]] ]

\* the row of INSERT INTO segmentations
SegmentationRow(segmentation_id, vid, result, chunks_processed, chunks_total) ==
    [ id |-> segmentation_id,
      video_id |-> vid,
      overall_topic |-> result.overall_topic,
      total_segments |-> result.total_segments,
      segmentation |-> SegmentationData(result),
      processing_status |-> ProcessingStatus(chunks_processed, chunks_total),
      chunks_processed |-> chunks_processed,
      total_chunks |-> chunks_total ]

\* the row of INSERT INTO segments
SegmentRow(segmentation_id, vid, segment) ==
    [ segmentation_id |-> segmentation_id,
      video_id |-> vid,
      title |-> segment.title,
      start_time |-> segment.start_time,
      end_time |-> segment.end_time,
      summary |-> segment.summary,
      key_topics |-> segment.key_topics,
      difficulty |-> segment.difficulty_level ]

\* VideoDatabase.save_segmentation when every insert succeeds: one row in
\* segmentations with the next id, one row in segments per segment
save_segmentation(d, vid, result, chunks_processed, chunks_total) ==
    LET segmentation_id == Len(d.segmentations) + 1
        row == SegmentationRow(segmentation_id, vid, result,
                               chunks_processed, chunks_total)
        segment_rows ==
            [i \in 1..Len(result.segments) |->
                SegmentRow(segmentation_id, vid, result.segments[i])]
    IN  [d EXCEPT !.segmentations = Append(d.segmentations, row),
                  !.segments = d.segments \o segment_rows]

\* VideoDatabase.get_segmentation(video_id, latest=False): the row of the
\* video with the smallest id, or None
get_segmentation_oldest(d, vid) ==
    LET IsVid(row) == row.video_id = vid
        found == SelectSeq(d.segmentations, IsVid)
    IN  IF found = <<>> THEN None
        ELSE LET bottom == CHOOSE i \in 1..Len(found) :
                               \A j \in 1..Len(found) : found[i].id <= found[j].id
             IN  found[bottom]

\* VideoDatabase.get_segmentation(video_id, latest=True): the row of the
\* video with the largest id, or None
get_segmentation(d, vid) ==
    LET IsVid(row) == row.video_id = vid
        found == SelectSeq(d.segmentations, IsVid)
    IN  IF found = <<>> THEN None
        ELSE LET top == CHOOSE i \in 1..Len(found) :
                            \A j \in 1..Len(found) : found[j].id <= found[i].id
             IN  found[top]

\* json.dumps of a list of strings, the text stored in key_topics_json
RECURSIVE JsonItems(_)
JsonItems(topics) ==
    IF topics = <<>> THEN <<>>
    ELSE <<"\"">> \o Head(topics) \o <<"\"">>
         \o (IF Tail(topics) = <<>> THEN <<>> ELSE <<",", " ">>)
         \o JsonItems(Tail(topics))

JsonDumps(topics) == <<"[">> \o JsonItems(topics) \o <<"]">>

\* text LIKE '%query%' for a query without % and _: the query occurs in the
\* text, letters compared without case
Like(text, query) == Contains(Lower(text), Lower(query))

\* the dictionary the two queries build from a row of segments
SegmentDict(row) ==
    [ title |-> row.title, start_time |-> row.start_time,
      end_time |-> row.end_time, summary |-> row.summary,
      key_topics |-> row.key_topics, difficulty |-> row.difficulty ]

\* VideoDatabase.get_segments_by_time: the rows of the video that overlap
\* the range, by start_time
get_segments_by_time(d, vid, start_time, end_time) ==
    LET Hit(row) == /\ row.video_id = vid
                    /\ row.end_time >= start_time
                    /\ row.start_time <= end_time
        rows == SortByStart(SelectSeq(d.segments, Hit))
    IN  [i \in 1..Len(rows) |-> SegmentDict(rows[i])]

\* VideoDatabase.search_segments: the rows of the video whose title, summary
\* or key_topics_json contains the query, by start_time
search_segments(d, vid, query) ==
    LET Hit(row) == /\ row.video_id = vid
                    /\ \/ Like(row.title, query)
                       \/ Like(row.summary, query)
                       \/ Like(JsonDumps(row.key_topics), query)
        rows == SortByStart(SelectSeq(d.segments, Hit))
    IN  [i \in 1..Len(rows) |-> SegmentDict(rows[i])]

(***************************************************************************)
(* _verify_segmentation_coverage                                           *)
(***************************************************************************)
\* is_complete = coverage_percentage >= 95.0
CoverageThresholdPct == 95

\* max(seg["end_time"] for seg in segments)
MaxEndTime(segments) ==
    CHOOSE e \in {segments[i].end_time : i \in 1..Len(segments)} :
        \A i \in 1..Len(segments) : segments[i].end_time <= e

CoverageStrictlyAbove(last_segment_end, actual_duration) ==
    IF actual_duration > 0
    THEN last_segment_end * 100 > CoverageThresholdPct * actual_duration
    ELSE FALSE

CoverageUnguarded(last_segment_end, actual_duration) ==
    last_segment_end * 100 >= CoverageThresholdPct * actual_duration

\* ((last_segment_end / actual_duration) * 100 if actual_duration > 0 else 0)
\* >= 95.0; the quotient is compared exactly
IsCoverageComplete(last_segment_end, actual_duration) ==
    IF actual_duration > 0
    THEN last_segment_end * 100 >= CoverageThresholdPct * actual_duration
    ELSE 0 >= CoverageThresholdPct

_verify_segmentation_coverage(cached_segmentation, vid, d) ==
    LET video_data == get_video(d, vid)
    IN  IF video_data = None THEN FALSE
        ELSE LET transcript == video_data.transcript
             IN  IF transcript = <<>> THEN FALSE
                 ELSE LET last_snippet == transcript[Len(transcript)]
                          actual_duration ==
                              last_snippet.start + last_snippet.duration
                          segments == cached_segmentation.segmentation.segments
                      IN  IF segments = <<>> THEN FALSE
                          ELSE IsCoverageComplete(MaxEndTime(segments),
                                                  actual_duration)

(***************************************************************************)
(* The state of a part of the program that a specification does not use     *)
(***************************************************************************)
MergeIdle ==
    /\ m_pc = "idle"
    /\ m_in = <<>>
    /\ m_out1 = <<>>
    /\ m_out2 = <<>>

LongIdle ==
    /\ l_pc = "idle"
    /\ video_id = <<>>
    /\ transcript_snippets = <<>>
    /\ chunk_duration = 0
    /\ overlap_duration = 0
    /\ total_duration = 0
    /\ chunk_start = 0
    /\ chunk_number = 0
    /\ total_chunks = 0
    /\ last_processed_chunk = 0
    /\ overall_topic = <<>>
    /\ all_segments = <<>>
    /\ calls = <<>>
    /\ l_result = [kind |-> "none"]

CovIdle ==
    /\ cov_pc = "idle"
    /\ cov_verdict = FALSE

EndpointIdle ==
    /\ e_pc = "idle"
    /\ req = None
    /\ resp = None
    /\ n_requests = 0
    /\ youtube = None

DbLogIdle == db_log = <<>>

FunIdle ==
    /\ f_pc = "idle"
    /\ f_in = None
    /\ f_out = None

HarnessIdle == DbLogIdle /\ FunIdle

\* request threads: the handlers declared with def, which the server runs
\* in a thread pool
MaxThreads == 2

Threads == 1..MaxThreads

GetDbIdle ==
    /\ _db_instance = None
    /\ instances = 0
    /\ t_pc = [t \in Threads |-> "idle"]
    /\ t_new = [t \in Threads |-> None]
    /\ t_calls = [t \in Threads |-> 0]
    /\ returned = <<>>

\* no call of save_segmentation in progress, no open transaction
NoCall == [none |-> TRUE]

ConnIdle ==
    /\ pending = [videos |-> <<>>, segmentations |-> <<>>, segments |-> <<>>]
    /\ s_pc = [t \in Threads |-> "idle"]
    /\ s_call = [t \in Threads |-> NoCall]
    /\ s_log = <<>>

(***************************************************************************)
(* The coverage verifier on its own: a database built with save_video and  *)
(* save_segmentation, as the tests build it, then one verification         *)
(***************************************************************************)
\* what the videos table holds for the video: no row, or a saved transcript
\* that is empty, of duration 0, of negative duration as a caller of
\* save_video may supply it, of duration 20, or of duration 100 with a first
\* snippet that outlasts the last one
CovTranscripts ==
    { <<>>,
      <<Snippet(Text, 0, 0)>>,
      <<Snippet(Text, 0, 0 - 10)>>,
      <<Snippet(Text, 0, 20)>>,
      <<Snippet(Text, 0, 500), Snippet(Text, 90, 10)>> }

CovEndTimes == {10, 18, 19, 50, 94, 95, 96, 100}

CovSegment(e) == Seg(TitleA, 0, e, <<"a">>, << <<"x">> >>, "medium")

\* no segment, one segment, or two of which the first ends last
CovSegmentLists ==
    {<<>>} \cup { <<CovSegment(e)>> : e \in CovEndTimes }
           \cup { <<CovSegment(e), CovSegment(5)>> : e \in CovEndTimes }

CovInit ==
    /\ GetDbIdle
    /\ ConnIdle
    /\ cov_pc = "start"
    /\ cov_verdict = FALSE
    /\ \E segments \in CovSegmentLists :
       \E with_video \in BOOLEAN :
       \E transcript \in CovTranscripts :
          LET result == VideoSegmentation(Vid1, segments, Len(segments),
                                          AdapterTopic(0))
              d0 == IF with_video
                    THEN save_video(EmptyDb, Vid1, transcript, None)
                    ELSE EmptyDb
          IN  /\ with_video \/ transcript = <<>>
              /\ db = save_segmentation(d0, Vid1, result, None, None)
    /\ MergeIdle
    /\ LongIdle
    /\ EndpointIdle
    /\ HarnessIdle

\* cached = db.get_segmentation(id); _verify_segmentation_coverage(cached, id, db)
CovVerify ==
    /\ cov_pc = "start"
    /\ cov_verdict' = _verify_segmentation_coverage(get_segmentation(db, Vid1),
                                                    Vid1, db)
    /\ cov_pc' = "done"
    /\ UNCHANGED <<db, mvars, lvars, evars, hvars, gvars, kvars>>

CovNext == CovVerify

SpecCov == CovInit /\ [][CovNext]_vars

(***************************************************************************)
(* The /segment endpoint                                                   *)
(***************************************************************************)
\* chunk_duration and overlap_duration the endpoint passes, and its threshold
EndpointChunkDuration == 3600
EndpointOverlapDuration == 300

\* extract_video_id on a string that holds no "/" (the URL forms are not
\* modelled): the string itself when it has 11 characters and no "?"; any
\* other such string has no hostname and no part of 11 characters
extract_video_id(video_url) ==
    IF video_url = <<>> THEN None
    ELSE IF Len(video_url) = 11 /\ "/" \notin Range(video_url)
            /\ "?" \notin Range(video_url)
         THEN Some(video_url)
         ELSE None

IsDigit(c) == \E i \in 1..Len(DigitChars) : DigitChars[i] = c

DigitValue(c) == (CHOOSE i \in 1..Len(DigitChars) : DigitChars[i] = c) - 1

\* the number of digits of s from position i on
RECURSIVE DigitRun(_, _)
DigitRun(s, i) ==
    IF i <= Len(s) /\ IsDigit(s[i]) THEN 1 + DigitRun(s, i + 1) ELSE 0

\* int(digits)
RECURSIVE ParseInt(_)
ParseInt(digits) ==
    IF digits = <<>> THEN 0
    ELSE 10 * ParseInt(SubSeq(digits, 1, Len(digits) - 1))
         + DigitValue(digits[Len(digits)])

PartialPrefix == <<"[","P","a","r","t","i","a","l",":"," ">>

\* whether r'\[Partial: (\d+)/(\d+)' matches s at position i
PartialMatchesAt(s, i) ==
    /\ i + Len(PartialPrefix) - 1 <= Len(s)
    /\ SubSeq(s, i, i + Len(PartialPrefix) - 1) = PartialPrefix
    /\ LET first == i + Len(PartialPrefix)
           n1 == DigitRun(s, first)
       IN  /\ n1 > 0
           /\ first + n1 <= Len(s)
           /\ s[first + n1] = "/"
           /\ DigitRun(s, first + n1 + 1) > 0

\* re.search(r'\[Partial: (\d+)/(\d+)', s): the two groups of the leftmost
\* match as integers, or None
NoPartialMatch(s) == None

SearchPartial(s) ==
    IF \E i \in 1..Len(s) : PartialMatchesAt(s, i)
    THEN LET i == CHOOSE k \in 1..Len(s) :
                     /\ PartialMatchesAt(s, k)
                     /\ \A j \in 1..(k - 1) : ~PartialMatchesAt(s, j)
             first == i + Len(PartialPrefix)
             n1 == DigitRun(s, first)
             second == first + n1 + 1
             n2 == DigitRun(s, second)
         IN  [ processed |-> ParseInt(SubSeq(s, first, first + n1 - 1)),
               total |-> ParseInt(SubSeq(s, second, second + n2 - 1)) ]
    ELSE None

\* the chunk counts the endpoint hands to save_segmentation
ChunkCounts(long, video_duration, topic) ==
    IF ~long THEN [chunks_processed |-> None, total_chunks |-> None]
    ELSE LET planned == ((video_duration - EndpointOverlapDuration)
                         \div (EndpointChunkDuration - EndpointOverlapDuration)) + 1
             match == SearchPartial(topic)
         IN  IF Contains(topic, <<"[","P","a","r","t","i","a","l",":">>)
                /\ match # None
             THEN [chunks_processed |-> Some(match.processed),
                   total_chunks |-> Some(match.total)]
             ELSE [chunks_processed |-> None, total_chunks |-> Some(planned)]

\* what getTranscript gives for a video: a transcript (here by its snippets)
\* or, when fetching fails, a message string
TranscriptFetched(snippets) == [kind |-> "transcript", snippets |-> snippets]
TranscriptErrorString == [kind |-> "error_string", snippets |-> <<>>]

YouTubeAnswers ==
    { TranscriptErrorString,
      TranscriptFetched(<<>>),
      TranscriptFetched(<<Snippet(Text, 0, 10), Snippet(Text, 3590, 10)>>),
      TranscriptFetched(<<Snippet(Text, 0, 10), Snippet(Text, 6890, 10)>>),
      TranscriptFetched(<<Snippet(Text, 0, 10), Snippet(Text, 7190, 10)>>) }

RequestUrls == { Vid1, <<"b","a","d">> }

VideoTitles == { None, Some(<<"T">>) }

MaxRequests == 2

Response(status, body, cache) ==
    [ status |-> status, body |-> body, from_cache |-> cache ]

\* if not force: cached_segmentation = db.get_segmentation(video_id)
CacheLookupDespiteForce(force, d, vid) == get_segmentation(d, vid)

CacheLookup(force, d, vid) ==
    IF ~force THEN get_segmentation(d, vid) ELSE None

\* what a request records of its own course, for the properties
RequestRecord(url, force, cached, verdict) ==
    [ video_url |-> url, force |-> force,
      cached |-> cached, verdict |-> verdict,
      run |-> [kind |-> "none"], failure |-> NoError,
      save_called |-> FALSE, saved_id |-> 0 ]

\* the handler from the request to its response or, when a segmentation has
\* to be made, to the call of segment_long_video or segment_video
Request ==
    /\ e_pc = "idle"
    /\ n_requests < MaxRequests
    /\ n_requests' = n_requests + 1
    /\ \E video_url \in RequestUrls, force \in BOOLEAN, title \in VideoTitles :
         LET id == extract_video_id(video_url)
             vid == id.some
             cached == CacheLookup(force, db, vid)
             verdict == IF cached = None THEN FALSE
                        ELSE _verify_segmentation_coverage(cached, vid, db)
             record == RequestRecord(video_url, force, cached, verdict)
         IN  IF id = None
             THEN /\ resp' = Response(400, None, FALSE)
                  /\ req' = RequestRecord(video_url, force, None, FALSE)
                  /\ UNCHANGED <<e_pc, db, lvars>>
             ELSE IF verdict
             THEN /\ resp' = Response(200, cached.segmentation, TRUE)
                  /\ req' = record
                  /\ UNCHANGED <<e_pc, db, lvars>>
             ELSE IF youtube.kind = "transcript" /\ youtube.snippets = <<>>
             THEN /\ resp' = Response(404, None, FALSE)
                  /\ req' = record
                  /\ UNCHANGED <<e_pc, db, lvars>>
             ELSE IF youtube.kind = "error_string"
             THEN /\ resp' = Response(500, None, FALSE)
                  /\ req' = record
                  /\ UNCHANGED <<e_pc, db, lvars>>
             ELSE LET snippets == youtube.snippets
                      video_duration == snippets[Len(snippets)].start
                                        + snippets[Len(snippets)].duration
                  IN  /\ db' = save_video(db, vid, snippets, title)
                      /\ req' = record
                      /\ e_pc' = "segmenting"
                      /\ UNCHANGED resp
                      /\ video_id' = vid
                      /\ transcript_snippets' = snippets
                      /\ calls' = <<>>
                      /\ l_result' = [kind |-> "none"]
                      /\ UNCHANGED <<chunk_start, chunk_number, total_chunks,
                                     last_processed_chunk, overall_topic,
                                     all_segments>>
                      /\ IF video_duration > EndpointChunkDuration
                         THEN /\ l_pc' = "call"
                              /\ chunk_duration' = EndpointChunkDuration
                              /\ overlap_duration' = EndpointOverlapDuration
                              /\ UNCHANGED total_duration
                         ELSE /\ l_pc' = "short"
                              /\ total_duration' = video_duration
                              /\ UNCHANGED <<chunk_duration, overlap_duration>>
    /\ UNCHANGED <<youtube, mvars, cvars, hvars, gvars, kvars>>

\* the handler once the segmentation call has returned or raised: the chunk
\* counts, save_segmentation (whose inserts may fail: it then rolls back and
\* returns -1, which the handler ignores), the response
Respond ==
    /\ e_pc = "segmenting"
    /\ l_pc = "done"
    /\ e_pc' = "idle"
    /\ LET failure == IF calls # <<>> /\ ~calls[Len(calls)].ok
                      THEN calls[Len(calls)].error ELSE NoError
       IN
       IF l_result.kind = "raise"
       THEN /\ resp' = Response(500, None, FALSE)
            /\ req' = [req EXCEPT !.run = l_result, !.failure = failure]
            /\ UNCHANGED db
       ELSE LET segmentation == l_result.value
                snippets == transcript_snippets
                video_duration == snippets[Len(snippets)].start
                                  + snippets[Len(snippets)].duration
                counts == ChunkCounts(video_duration > EndpointChunkDuration,
                                      video_duration,
                                      segmentation.overall_topic)
                saved == save_segmentation(db, video_id, segmentation,
                                           counts.chunks_processed,
                                           counts.total_chunks)
            IN  \E insert_ok \in BOOLEAN :
                  /\ db' = IF insert_ok THEN saved ELSE db
                  /\ req' = [req EXCEPT
                               !.run = l_result, !.failure = failure,
                               !.save_called = TRUE,
                               !.saved_id = IF insert_ok
                                            THEN Len(saved.segmentations)
                                            ELSE 0 - 1]
                  /\ resp' = Response(200, SegmentationData(segmentation), FALSE)
    /\ l_pc' = "idle"
    /\ video_id' = <<>>
    /\ transcript_snippets' = <<>>
    /\ chunk_duration' = 0
    /\ overlap_duration' = 0
    /\ total_duration' = 0
    /\ chunk_start' = 0
    /\ chunk_number' = 0
    /\ total_chunks' = 0
    /\ last_processed_chunk' = 0
    /\ overall_topic' = <<>>
    /\ all_segments' = <<>>
    /\ calls' = <<>>
    /\ l_result' = [kind |-> "none"]
    /\ UNCHANGED <<n_requests, youtube, mvars, cvars, hvars, gvars, kvars>>

Init ==
    /\ GetDbIdle
    /\ ConnIdle
    /\ db = EmptyDb
    /\ e_pc = "idle"
    /\ req = None
    /\ resp = None
    /\ n_requests = 0
    /\ youtube \in YouTubeAnswers
    /\ MergeIdle
    /\ LongIdle
    /\ CovIdle
    /\ HarnessIdle

Next ==
    \/ Request
    \/ Enter
    \/ ShortOk
    \/ ShortFail
    \/ ChunkOk
    \/ ChunkFail
    \/ Respond

Spec == Init /\ [][Next]_vars

(***************************************************************************)
(* Inputs of a direct call of segment_long_video                           *)
(***************************************************************************)
MaxDuration == 9
MaxChunks == 4



\* transcripts ordered by start: the empty one, and two snippets of which
\* the last ends at total, with a last snippet of duration 1 or 0
TranscriptsOf(total) ==
    { <<Snippet(Text, 0, 1), Snippet(Text, total - d, d)>> : d \in 0..1 }

SmallTranscripts == UNION { TranscriptsOf(total) : total \in 2..MaxDuration }

LongTranscripts == UNION { TranscriptsOf(total) : total \in {3600, 6900, 7200} }

\* (chunk_duration, overlap_duration) with 0 <= overlap < chunk
SmallParams == { <<3, 0>>, <<3, 1>>, <<4, 2>>, <<5, 1>> }

CallInputs ==
    { <<t, p>> \in SmallTranscripts \X SmallParams : TRUE }
    \cup { <<t, <<DefaultChunkDuration, DefaultOverlapDuration>> >> :
             t \in LongTranscripts \cup SmallTranscripts }
    \cup { <<<<>>, p>> : p \in SmallParams }

DurationOf(t) == IF t = <<>> THEN 0 ELSE t[Len(t)].start + t[Len(t)].duration

LongInit ==
    /\ GetDbIdle
    /\ ConnIdle
    /\ l_pc = "call"
    /\ video_id = Vid1
    /\ \E input \in CallInputs :
          /\ transcript_snippets = input[1]
          /\ chunk_duration = input[2][1]
          /\ overlap_duration = input[2][2]
          /\ TotalChunks(DurationOf(input[1]), input[2][1], input[2][2])
                 <= MaxChunks
    /\ total_duration = 0
    /\ chunk_start = 0
    /\ chunk_number = 0
    /\ total_chunks = 0
    /\ last_processed_chunk = 0
    /\ overall_topic = <<>>
    /\ all_segments = <<>>
    /\ calls = <<>>
    /\ l_result = [kind |-> "none"]
    /\ MergeIdle
    /\ db = EmptyDb
    /\ CovIdle
    /\ HarnessIdle
    /\ EndpointIdle

SpecLong == LongInit /\ [][LongNext]_vars

\* every adapter call returns or raises, and the statements between two
\* calls run to the next call
SpecLongFair == SpecLong /\ WF_vars(LongNext)

(***************************************************************************)
(* Inputs of the merge harness                                             *)
(***************************************************************************)
MaxMergeLen == 3

\* well-formed segments (end_time > start_time) covering: overlap with a
\* richer, a poorer and an equally rich successor; gaps below and above 300 s;
\* Jaccard similarity 0, 1/2 and 1, also across letter case; empty key_topics;
\* titles with and without a continuation marker
SegPool ==
    { Seg(TitleA, 0, 100, <<"a","b","c">>, << <<"x">>, <<"y">> >>, "easy"),
      Seg(TitleA, 20, 60, <<"a","b","c","d">>, << <<"x">> >>, "medium"),
      Seg(TitleB, 100, 200, <<"a">>, << <<"z">> >>, "medium"),
      Seg(TitleBContinued, 150, 300, <<"a","b","c">>, << <<"z">> >>, "hard"),
      Seg(TitleA, 100, 250, <<"a","b">>, << <<"X">> >>, "medium"),
      Seg(TitleB, 300, 400, <<>>, <<>>, "medium"),
      Seg(TitleB, 700, 800, <<"a","b">>, << <<"x">>, <<"y">> >>, "medium"),
      Seg(TitlePart2, 900, 1000, <<"a">>, << <<"q">> >>, "easy") }

RECURSIVE ListsUpTo(_, _)
ListsUpTo(S, n) ==
    IF n = 0 THEN {<<>>}
    ELSE LET shorter == ListsUpTo(S, n - 1)
         IN  shorter \cup {Append(l, x) : l \in shorter, x \in S}

MergeInit ==
    /\ GetDbIdle
    /\ ConnIdle
    /\ m_pc = "start"
    /\ m_in \in ListsUpTo(SegPool, MaxMergeLen)
    /\ m_out1 = <<>>
    /\ m_out2 = <<>>
    /\ LongIdle
    /\ db = EmptyDb
    /\ CovIdle
    /\ HarnessIdle
    /\ EndpointIdle

\* merged = merge_similar_segments(S)
MergeOnce ==
    /\ m_pc = "start"
    /\ m_out1' = merge_similar_segments(m_in)
    /\ m_pc' = "once"
    /\ UNCHANGED <<m_in, m_out2, not_m>>

\* merge_similar_segments(merged)
MergeTwice ==
    /\ m_pc = "once"
    /\ m_out2' = merge_similar_segments(m_out1)
    /\ m_pc' = "twice"
    /\ UNCHANGED <<m_in, m_out1, not_m>>

MergeNext == MergeOnce \/ MergeTwice

SpecMerge == MergeInit /\ [][MergeNext]_vars

(***************************************************************************)
(* format_transcript_snippets                                              *)
(***************************************************************************)
\* f"[{timestamp}] {snippet.text}"
FormatLine(snippet) ==
    <<"[">> \o format_timestamp(snippet.start) \o <<"]", " ">> \o snippet.text

TruncationMarker ==
    <<".",".","."," ","[","t","r","a","n","s","c","r","i","p","t"," ",
      "t","r","u","n","c","a","t","e","d"," ","f","o","r"," ",
      "l","e","n","g","t","h","]"," ",".",".",".">>

\* if total_chars + len(line) > max_chars
NeverExceedsBudget(total_chars, line, max_chars) == FALSE

ExceedsBudget(total_chars, line, max_chars) ==
    total_chars + Len(line) > max_chars

\* if end_time is not None and snippet.start >= end_time
WindowNeverEnds(snippet, end_time) == FALSE

PastWindowEnd(snippet, end_time) ==
    end_time # None /\ snippet.start >= end_time.some

\* the for loop from snippet i on: the list lines when the loop is left
RECURSIVE FormatLoop(_, _, _, _, _, _, _)
FormatLoop(snippets, i, lines, total_chars, max_chars, start_time, end_time) ==
    IF i > Len(snippets) THEN lines
    ELSE LET snippet == snippets[i]
             line == FormatLine(snippet)
         IN  IF snippet.start < start_time
             THEN FormatLoop(snippets, i + 1, lines, total_chars, max_chars,
                             start_time, end_time)
             ELSE IF PastWindowEnd(snippet, end_time)
             THEN lines
             ELSE IF ExceedsBudget(total_chars, line, max_chars)
             THEN Append(lines, TruncationMarker)
             ELSE FormatLoop(snippets, i + 1, Append(lines, line),
                             total_chars + Len(line) + 1, max_chars,
                             start_time, end_time)

\* "\n".join(lines)
RECURSIVE JoinLines(_)
JoinLines(lines) ==
    IF lines = <<>> THEN <<>>
    ELSE IF Len(lines) = 1 THEN lines[1]
    ELSE lines[1] \o <<"\n">> \o JoinLines(Tail(lines))

format_transcript_snippets(snippets, max_chars, start_time, end_time) ==
    JoinLines(FormatLoop(snippets, 1, <<>>, 0, max_chars, start_time, end_time))

(***************************************************************************)
(* format_transcript_snippets on its own                                   *)
(***************************************************************************)
MaxChars == 40

\* transcripts ordered by start, with an empty text, a start past the hour
\* (a longer timestamp) and two snippets of the same start
FormatTranscripts ==
    { <<>>,
      <<Snippet(Text, 0, 5)>>,
      <<Snippet(Text, 0, 5), Snippet(Text, 5, 5), Snippet(Text, 10, 5)>>,
      <<Snippet(<<>>, 0, 5), Snippet(Text, 5, 0), Snippet(Text, 5, 5)>>,
      <<Snippet(Text, 5, 5), Snippet(<<"h","e","l","l","o">>, 3600, 5),
        Snippet(Text, 3605, 5)>> }

FormatStartTimes == {0, 5}

FormatEndTimes == {None, Some(5), Some(10), Some(3605)}

FormatInit ==
    /\ GetDbIdle
    /\ ConnIdle
    /\ f_pc = "start"
    /\ f_out = None
    /\ \E snippets \in FormatTranscripts, max_chars \in 0..MaxChars,
          start_time \in FormatStartTimes, end_time \in FormatEndTimes :
          f_in = [ snippets |-> snippets, max_chars |-> max_chars,
                   start_time |-> start_time, end_time |-> end_time ]
    /\ DbLogIdle
    /\ db = EmptyDb
    /\ MergeIdle
    /\ LongIdle
    /\ CovIdle
    /\ EndpointIdle

FormatCall ==
    /\ f_pc = "start"
    /\ f_out' = [ text |-> format_transcript_snippets(f_in.snippets,
                      f_in.max_chars, f_in.start_time, f_in.end_time) ]
    /\ f_pc' = "done"
    /\ UNCHANGED <<f_in, db_log, db, mvars, lvars, cvars, evars, gvars, kvars>>

FormatNext == FormatCall

SpecFormat == FormatInit /\ [][FormatNext]_vars

(***************************************************************************)
(* are_topics_similar on its own                                           *)
(***************************************************************************)
MaxTopics == 2

\* topics that differ in case only, and topics that differ
TopicPool == { <<"x">>, <<"X">>, <<"y">>, <<"z">> }

TopicLists == ListsUpTo(TopicPool, MaxTopics)

\* thresholds in percent: 0.0, the default 0.3, the merge engine's 0.5, 1.0
SimilarityThresholds == {0, 30, 50, 100}

TopicSegment(topics) == Seg(TitleA, 0, 10, <<"a">>, topics, "medium")

SimilarInit ==
    /\ GetDbIdle
    /\ ConnIdle
    /\ f_pc = "start"
    /\ f_out = None
    /\ \E topics1 \in TopicLists, topics2 \in TopicLists,
          threshold \in SimilarityThresholds :
          f_in = [ seg1 |-> TopicSegment(topics1),
                   seg2 |-> TopicSegment(topics2),
                   threshold |-> threshold ]
    /\ DbLogIdle
    /\ db = EmptyDb
    /\ MergeIdle
    /\ LongIdle
    /\ CovIdle
    /\ EndpointIdle

\* are_topics_similar(seg1, seg2, threshold) and are_topics_similar(seg2,
\* seg1, threshold)
SimilarCall ==
    /\ f_pc = "start"
    /\ f_out' = [ forward |-> are_topics_similar(f_in.seg1, f_in.seg2,
                                                 f_in.threshold),
                  backward |-> are_topics_similar(f_in.seg2, f_in.seg1,
                                                  f_in.threshold) ]
    /\ f_pc' = "done"
    /\ UNCHANGED <<f_in, db_log, db, mvars, lvars, cvars, evars, gvars, kvars>>

SimilarNext == SimilarCall

SpecSimilar == SimilarInit /\ [][SimilarNext]_vars

(***************************************************************************)
(* get_db, one action per step a thread can be interrupted after           *)
(***************************************************************************)
\* get_db calls a thread makes, one per request it serves
MaxGetDbCalls == 2

\* a request thread reaches db = get_db()
GetDbCall(t) ==
    /\ t_pc[t] = "idle"
    /\ t_calls[t] < MaxGetDbCalls
    /\ t_pc' = [t_pc EXCEPT ![t] = "test"]
    /\ UNCHANGED <<_db_instance, instances, t_new, t_calls, returned>>
    /\ UNCHANGED <<mvars, lvars, db, cvars, evars, hvars, kvars>>

\* if _db_instance is None
GetDbTest(t) ==
    /\ t_pc[t] = "test"
    /\ t_pc' = [t_pc EXCEPT ![t] = IF _db_instance = None
                                   THEN "construct" ELSE "return"]
    /\ UNCHANGED <<_db_instance, instances, t_new, t_calls, returned>>
    /\ UNCHANGED <<mvars, lvars, db, cvars, evars, hvars, kvars>>

\* VideoDatabase(): connects and creates the tables, a new instance
GetDbConstruct(t) ==
    /\ t_pc[t] = "construct"
    /\ instances' = instances + 1
    /\ t_new' = [t_new EXCEPT ![t] = Some(instances + 1)]
    /\ t_pc' = [t_pc EXCEPT ![t] = "assign"]
    /\ UNCHANGED <<_db_instance, t_calls, returned>>
    /\ UNCHANGED <<mvars, lvars, db, cvars, evars, hvars, kvars>>

\* _db_instance = <the new instance>
GetDbAssign(t) ==
    /\ t_pc[t] = "assign"
    /\ _db_instance' = t_new[t]
    /\ t_new' = [t_new EXCEPT ![t] = None]
    /\ t_pc' = [t_pc EXCEPT ![t] = "return"]
    /\ UNCHANGED <<instances, t_calls, returned>>
    /\ UNCHANGED <<mvars, lvars, db, cvars, evars, hvars, kvars>>

\* return _db_instance
GetDbReturn(t) ==
    /\ t_pc[t] = "return"
    /\ returned' = Append(returned, [thread |-> t, instance |-> _db_instance])
    /\ t_calls' = [t_calls EXCEPT ![t] = t_calls[t] + 1]
    /\ t_pc' = [t_pc EXCEPT ![t] = "idle"]
    /\ UNCHANGED <<_db_instance, instances, t_new>>
    /\ UNCHANGED <<mvars, lvars, db, cvars, evars, hvars, kvars>>

GetDbInit ==
    /\ GetDbIdle
    /\ ConnIdle
    /\ db = EmptyDb
    /\ MergeIdle
    /\ LongIdle
    /\ CovIdle
    /\ EndpointIdle
    /\ HarnessIdle

GetDbNext ==
    \E t \in Threads :
        \/ GetDbCall(t)
        \/ GetDbTest(t)
        \/ GetDbConstruct(t)
        \/ GetDbAssign(t)
        \/ GetDbReturn(t)

SpecGetDb == GetDbInit /\ [][GetDbNext]_vars

(***************************************************************************)
(* VideoDatabase on its own: save_segmentation called directly, as the     *)
(* tests call it, any number of times for two videos                       *)
(***************************************************************************)
Vid2 == <<"v","i","d","e","o","_","0","0","0","0","2">>

DbVideos == {Vid1, Vid2}

MaxSaves == 3

SaveInput(result, chunks_processed, chunks_total) ==
    [ result |-> result, chunks_processed |-> chunks_processed,
      total_chunks |-> chunks_total ]

\* what callers hand to save_segmentation for a video: a whole segmentation
\* without chunk counts; a chunked one of which all chunks were processed
\* (the endpoint then supplies only total_chunks); one truncated after the
\* first of three chunks; one truncated before any chunk was processed; and
\* one with equal counts
SaveInputs(vid) ==
    LET first == Seg(TitleA, 0, 3600, <<"a">>, << <<"x">> >>, "easy")
        second == Seg(TitleB, 3600, 7200, <<"a","b">>, << <<"z">> >>, "hard")
    IN  { SaveInput(VideoSegmentation(vid, <<first, second>>, 2, AdapterTopic(0)),
                    None, None),
          SaveInput(VideoSegmentation(vid, <<first, second>>, 2, AdapterTopic(1)),
                    None, Some(3)),
          SaveInput(VideoSegmentation(vid, <<first>>, 1,
                        AdapterTopic(1) \o PartialAnnotation(1, 3, <<first>>)),
                    Some(1), Some(3)),
          SaveInput(VideoSegmentation(vid, <<>>, 0,
                        LongVideoContent \o PartialAnnotation(0, 3, <<>>)),
                    Some(0), Some(3)),
          SaveInput(VideoSegmentation(vid, <<second>>, 1, AdapterTopic(2)),
                    Some(3), Some(3)) }

\* save_segmentation as a whole: when every insert succeeds the rows are
\* committed and the new id returned; when one fails the transaction is
\* rolled back and -1 returned
SaveSegmentationOutcome(d, vid, result, chunks_processed, chunks_total, insert_ok) ==
    LET saved == save_segmentation(d, vid, result, chunks_processed, chunks_total)
    IN  IF insert_ok
        THEN [db |-> saved, returned |-> Len(saved.segmentations)]
        ELSE [db |-> d, returned |-> 0 - 1]

DbInit ==
    /\ GetDbIdle
    /\ ConnIdle
    /\ db = EmptyDb
    /\ db_log = <<>>
    /\ FunIdle
    /\ MergeIdle
    /\ LongIdle
    /\ CovIdle
    /\ EndpointIdle

DbSaveSegmentation ==
    /\ Len(db_log) < MaxSaves
    /\ \E vid \in DbVideos, insert_ok \in BOOLEAN :
       \E input \in SaveInputs(vid) :
          LET outcome == SaveSegmentationOutcome(db, vid, input.result,
                             input.chunks_processed, input.total_chunks,
                             insert_ok)
          IN  /\ db' = outcome.db
              /\ db_log' = Append(db_log,
                     [ video_id |-> vid, result |-> input.result,
                       chunks_processed |-> input.chunks_processed,
                       total_chunks |-> input.total_chunks,
                       returned |-> outcome.returned ])
    /\ UNCHANGED <<mvars, lvars, cvars, evars, f_pc, f_in, f_out, gvars, kvars>>

DbNext == DbSaveSegmentation

SpecDb == DbInit /\ [][DbNext]_vars

(***************************************************************************)
(* save_segmentation called by request threads: the handlers share one     *)
(* VideoDatabase and so one connection and one transaction; one action per *)
(* statement a thread can be interrupted after                             *)
(***************************************************************************)
\* calls of save_segmentation in a run
MaxConnSaves == 2

\* what the threads save: a whole segmentation of two segments, and one
\* truncated after the first of three chunks
ConnInputs(vid) ==
    { input \in SaveInputs(vid) :
        \/ input.chunks_processed = None /\ input.total_chunks = None
        \/ input.chunks_processed = Some(1) }

CallsInProgress == { t \in Threads : s_pc[t] = "insert" }

\* a thread enters save_segmentation; failing_insert is the execute call
\* that will raise, 0 for none
SaveSegmentationCall(t) ==
    /\ s_pc[t] = "idle"
    /\ Len(s_log) + Cardinality(CallsInProgress) < MaxConnSaves
    /\ \E vid \in DbVideos :
       \E input \in ConnInputs(vid) :
       \E failing_insert \in 0..(Len(input.result.segments) + 1) :
          s_call' = [s_call EXCEPT ![t] =
                        [ video_id |-> vid, result |-> input.result,
                          chunks_processed |-> input.chunks_processed,
                          total_chunks |-> input.total_chunks,
                          failing_insert |-> failing_insert,
                          executed |-> 0, segmentation_id |-> 0 ]]
    /\ s_pc' = [s_pc EXCEPT ![t] = "insert"]
    /\ UNCHANGED <<db, pending, s_log>>
    /\ UNCHANGED <<mvars, lvars, cvars, evars, hvars, gvars>>

\* cursor.execute: the next insert of the call, into the open transaction;
\* the first is the segmentations row, whose id is cursor.lastrowid
SaveSegmentationExecute(t) ==
    /\ s_pc[t] = "insert"
    /\ s_call[t].executed < Len(s_call[t].result.segments) + 1
    /\ s_call[t].failing_insert # s_call[t].executed + 1
    /\ LET call == s_call[t]
           lastrowid == Len(pending.segmentations) + 1
       IN  IF call.executed = 0
           THEN /\ pending' = [pending EXCEPT !.segmentations =
                       Append(@, SegmentationRow(lastrowid, call.video_id,
                                     call.result, call.chunks_processed,
                                     call.total_chunks))]
                /\ s_call' = [s_call EXCEPT ![t].executed = 1,
                                            ![t].segmentation_id = lastrowid]
           ELSE /\ pending' = [pending EXCEPT !.segments =
                       Append(@, SegmentRow(call.segmentation_id, call.video_id,
                                     call.result.segments[call.executed]))]
                /\ s_call' = [s_call EXCEPT ![t].executed = @ + 1]
    /\ UNCHANGED <<db, s_pc, s_log>>
    /\ UNCHANGED <<mvars, lvars, cvars, evars, hvars, gvars>>

\* the entry of the history for the call of thread t
Finished(t, result_id) ==
    [ thread |-> t, video_id |-> s_call[t].video_id,
      result |-> s_call[t].result,
      failing_insert |-> s_call[t].failing_insert,
      returned |-> result_id ]

\* self.conn.commit(); return segmentation_id: everything the connection
\* holds in its transaction becomes durable
SaveSegmentationCommit(t) ==
    /\ s_pc[t] = "insert"
    /\ s_call[t].executed = Len(s_call[t].result.segments) + 1
    /\ db' = pending
    /\ s_log' = Append(s_log, Finished(t, s_call[t].segmentation_id))
    /\ s_pc' = [s_pc EXCEPT ![t] = "idle"]
    /\ s_call' = [s_call EXCEPT ![t] = NoCall]
    /\ UNCHANGED pending
    /\ UNCHANGED <<mvars, lvars, cvars, evars, hvars, gvars>>

\* an execute raised: self.conn.rollback(); return -1: everything in the
\* connection's transaction is undone
SaveSegmentationRollback(t) ==
    /\ s_pc[t] = "insert"
    /\ s_call[t].failing_insert = s_call[t].executed + 1
    /\ pending' = db
    /\ s_log' = Append(s_log, Finished(t, 0 - 1))
    /\ s_pc' = [s_pc EXCEPT ![t] = "idle"]
    /\ s_call' = [s_call EXCEPT ![t] = NoCall]
    /\ UNCHANGED db
    /\ UNCHANGED <<mvars, lvars, cvars, evars, hvars, gvars>>

ConnInit ==
    /\ ConnIdle
    /\ GetDbIdle
    /\ db = EmptyDb
    /\ MergeIdle
    /\ LongIdle
    /\ CovIdle
    /\ EndpointIdle
    /\ HarnessIdle

ConnNext ==
    \E t \in Threads :
        \/ SaveSegmentationCall(t)
        \/ SaveSegmentationExecute(t)
        \/ SaveSegmentationCommit(t)
        \/ SaveSegmentationRollback(t)

SpecConn == ConnInit /\ [][ConnNext]_vars

(***************************************************************************)
(* Properties of the merge engine                                          *)
(***************************************************************************)
\* two segments are the same when all fields agree, key_topics as a set
SameSegment(a, b) ==
    /\ a.title = b.title
    /\ a.summary = b.summary
    /\ a.start_time = b.start_time
    /\ a.end_time = b.end_time
    /\ Range(a.key_topics) = Range(b.key_topics)
    /\ a.difficulty_level = b.difficulty_level

SameSegments(s, t) ==
    /\ Len(s) = Len(t)
    /\ \A i \in 1..Len(s) : SameSegment(s[i], t[i])

\* C2: merge idempotence: merging the output of a merge changes nothing
C2_MergeIdempotent ==
    m_pc = "twice" => SameSegments(m_out2, m_out1)

\* a first merge whose output holds at least two segments has been merged again
C2_Witness ==
    m_pc = "twice" /\ Len(m_out1) >= 2

\* C3: the output of merge_similar_segments is sorted by start_time and each
\* output segment starts at or after the end of the one before it
C3_SortedNoOverlap ==
    m_pc # "start" =>
        \A i \in 1..(Len(m_out1) - 1) :
            /\ m_out1[i].start_time <= m_out1[i + 1].start_time
            /\ m_out1[i + 1].start_time >= m_out1[i].end_time

\* an unsorted input with an overlapping pair has been merged to several segments
C3_Witness ==
    /\ m_pc = "once"
    /\ Len(m_in) = 3
    /\ Len(m_out1) >= 2
    /\ m_in[1].start_time > m_in[2].start_time
    /\ \E i, j \in 1..Len(m_in) :
          i # j /\ m_in[i].start_time < m_in[j].start_time
                /\ m_in[j].start_time < m_in[i].end_time

(***************************************************************************)
(* Properties of segment_long_video                                        *)
(***************************************************************************)
Done == l_pc = "done"

\* the call took the chunk loop, not the short-video fast path
Chunked == Done /\ transcript_snippets # <<>> /\ total_duration > chunk_duration

AllCallsOk == \A i \in 1..Len(calls) : calls[i].ok

LastCall == calls[Len(calls)]

\* the run was ended by an adapter failure of the given kind
FailedWith(kind) ==
    Done /\ calls # <<>> /\ ~LastCall.ok /\ LastCall.error.kind = kind

EndsWith(s, suffix) ==
    /\ Len(s) >= Len(suffix)
    /\ SubSeq(s, Len(s) - Len(suffix) + 1, Len(s)) = suffix

\* what chunks 1..k contribute: everything chunk 1 returned, and of a later
\* chunk the segments that start at or after the end of the chunk before it
RECURSIVE AccumulatedUpTo(_)
AccumulatedUpTo(k) ==
    IF k = 0 THEN <<>>
    ELSE LET Later(seg) == seg.start_time >= calls[k - 1].end
         IN  AccumulatedUpTo(k - 1) \o
             (IF k = 1 THEN calls[k].segments
              ELSE SelectSeq(calls[k].segments, Later))

LastEnd(segments) ==
    IF segments = <<>> THEN 0 ELSE segments[Len(segments)].end_time

PlannedChunks == TotalChunks(total_duration, chunk_duration, overlap_duration)

\* C1: a chunked run without a failed adapter call processes exactly
\* total_chunks windows and returns the first chunk's topic, not annotated
C1_CompleteRunNotAnnotated ==
    (Chunked /\ AllCallsOk) =>
        /\ l_result.kind = "return"
        /\ Len(calls) = PlannedChunks
        /\ l_result.value.overall_topic = calls[1].topic

\* a chunked run of several chunks has returned without any failure
C1_Witness ==
    Chunked /\ AllCallsOk /\ Len(calls) >= 2 /\ l_result.kind = "return"

\* C4: the windows of a run without failures cover [0, total_duration]: the
\* first starts at 0, each next one starts at or before the end of the one
\* before it, and the last ends at total_duration
C4_ChunkCoverage ==
    (Chunked /\ AllCallsOk) =>
        /\ calls[1].start = 0
        /\ \A i \in 1..(Len(calls) - 1) : calls[i + 1].start <= calls[i].end
        /\ LastCall.end = total_duration

\* a run without failures over three windows, the last one clipped
C4_Witness ==
    /\ Chunked /\ AllCallsOk /\ Len(calls) >= 3
    /\ LastCall.end - LastCall.start < chunk_duration

\* C5: a rate-limit failure on chunk k of a chunked run returns the merge of
\* what chunks 1..k-1 accumulated, annotated "[Partial: k-1/total_chunks ...]"
C5_RateLimitGivesPartial ==
    (Chunked /\ FailedWith("rate_limit")) =>
        LET k == LastCall.chunk
            kept == AccumulatedUpTo(k - 1)
        IN  /\ l_result.kind = "return"
            /\ SameSegments(l_result.value.segments, merge_similar_segments(kept))
            /\ EndsWith(l_result.value.overall_topic,
                   <<"[","P","a","r","t","i","a","l",":"," ">>
                   \o IntToStr(k - 1) \o <<"/">> \o IntToStr(PlannedChunks)
                   \o <<" ","c","h","u","n","k","s"," ","p","r","o","c","e","s",
                        "s","e","d"," ","u","p"," ","t","o"," ">>
                   \o format_timestamp(LastEnd(kept)) \o <<"]">>)

\* the rate limit hit a chunk after the first, and an earlier chunk had
\* returned a segment that the boundary rule dropped
C5_Witness ==
    /\ Chunked /\ FailedWith("rate_limit") /\ LastCall.chunk >= 3
    /\ \E i \in 2..(Len(calls) - 1) :
          Len(AccumulatedUpTo(i)) < Len(AccumulatedUpTo(i - 1)) + Len(calls[i].segments)

\* C6 as stated: a rate-limit failure of any adapter call is never raised
C6_RateLimitNeverRaised ==
    FailedWith("rate_limit") => l_result.kind = "return"

\* C6 amended: in the chunk loop a rate-limit failure is not raised, the
\* call returns the segments accumulated so far; on the short-video fast
\* path it is raised to the caller
C6_RateLimitRaisedOnlyOnFastPath ==
    FailedWith("rate_limit") =>
        IF Chunked
        THEN /\ l_result.kind = "return"
             /\ SameSegments(l_result.value.segments,
                             merge_similar_segments(AccumulatedUpTo(LastCall.chunk - 1)))
        ELSE l_result = Raised(LastCall.error)

\* the rate limit hit the first chunk of a chunked run
C6_Witness ==
    Chunked /\ FailedWith("rate_limit") /\ LastCall.chunk = 1

(***************************************************************************)
(* Properties of _verify_segmentation_coverage                             *)
(***************************************************************************)
CovDone == cov_pc = "done"

CovVideo == get_video(db, Vid1)

CovStoredTranscript == IF CovVideo = None THEN <<>> ELSE CovVideo.transcript

CovDuration ==
    LET t == CovStoredTranscript
    IN  IF t = <<>> THEN 0 ELSE t[Len(t)].start + t[Len(t)].duration

CovSegments == get_segmentation(db, Vid1).segmentation.segments

\* C8: for a cached segmentation with at least one segment and a stored
\* transcript of positive duration, the verdict is true exactly when some
\* segment's end_time is at least 95% of the duration, where the duration is
\* start + duration of the last stored snippet
C8_VerdictIffNinetyFivePercent ==
    (CovDone /\ CovSegments # <<>> /\ CovDuration > 0)
    => (cov_verdict <=>
          \E i \in 1..Len(CovSegments) :
              20 * CovSegments[i].end_time >= 19 * CovDuration)

\* a ratio of exactly 0.95 reached by a segment that is not the last one
C8_Witness ==
    /\ CovDone
    /\ cov_verdict
    /\ CovDuration = 20
    /\ Len(CovSegments) = 2
    /\ CovSegments[1].end_time = 19
    /\ CovSegments[2].end_time = 5

\* C9: the verdict is false whenever the cached segmentation has no segment,
\* the video row is missing, the stored transcript is empty, or the duration
\* computed from it is zero or negative
C9_FailsClosed ==
    (CovDone /\ (\/ CovSegments = <<>>
                 \/ CovVideo = None
                 \/ CovStoredTranscript = <<>>
                 \/ CovDuration <= 0))
    => cov_verdict = FALSE

\* a stored transcript of non-positive duration under a segmentation that
\* has segments
C9_Witness ==
    /\ CovDone
    /\ CovSegments # <<>>
    /\ CovStoredTranscript # <<>>
    /\ CovDuration <= 0
    /\ cov_verdict = FALSE

(***************************************************************************)
(* Properties of the /segment endpoint                                     *)
(***************************************************************************)
\* a request has been answered
Answered == e_pc = "idle" /\ req # None /\ resp # None

ValidUrl == extract_video_id(req.video_url) # None

\* the segmentation get_segmentation gives for the request's video
StoredNow == get_segmentation(db, extract_video_id(req.video_url).some)

\* the duration of the transcript stored for the request's video
StoredDuration ==
    LET t == get_video(db, extract_video_id(req.video_url).some).transcript
    IN  t[Len(t)].start + t[Len(t)].duration

\* C7 (as stated): an adapter failure that is not a rate-limit failure makes
\* segment_long_video raise, and the request that made the call saves nothing
C7_OtherFailureAborts ==
    /\ (e_pc = "segmenting" /\ FailedWith("other")) => l_result.kind = "raise"
    /\ (Answered /\ req.failure.kind = "other")
          => (req.run.kind = "raise" /\ ~req.save_called /\ resp.status = 500)

C11_PartialIffFewerChunks ==
    \A i \in 1..Len(db.segmentations) :
        LET row == db.segmentations[i]
            fewer == /\ row.chunks_processed # None
                     /\ row.total_chunks # None
                     /\ row.chunks_processed.some < row.total_chunks.some
        IN  (row.processing_status = "partial") <=> fewer

\* a run truncated before its first chunk has been stored by the endpoint
C11_Witness ==
    /\ Answered
    /\ req.save_called
    /\ req.saved_id >= 1
    /\ StoredNow.chunks_processed = Some(0)
    /\ StoredNow.total_chunks = Some(3)

\* the successful direct saves for a video, by their position in the log
SavesFor(vid) ==
    { i \in 1..Len(db_log) :
        db_log[i].video_id = vid /\ db_log[i].returned >= 1 }

LatestSaveFor(vid) ==
    db_log[CHOOSE i \in SavesFor(vid) : \A j \in SavesFor(vid) : j <= i]

\* C12: after any sequence of saves, get_segmentation gives for each video
\* what the most recent successful save for it stored: its segmentation, its
\* topic, its status and its counts; and None when there was none
C12_LatestSaveIsReturned ==
    \A vid \in DbVideos :
        LET got == get_segmentation(db, vid)
        IN  IF SavesFor(vid) = {}
            THEN got = None
            ELSE LET last == LatestSaveFor(vid)
                 IN  /\ got # None
                     /\ got.id = last.returned
                     /\ got.video_id = vid
                     /\ got.segmentation = SegmentationData(last.result)
                     /\ got.overall_topic = last.result.overall_topic
                     /\ got.total_segments = last.result.total_segments
                     /\ got.processing_status =
                            ProcessingStatus(last.chunks_processed,
                                             last.total_chunks)
                     /\ got.chunks_processed = last.chunks_processed
                     /\ got.total_chunks = last.total_chunks

\* two successful saves of different segmentations for one video, the
\* second one partial, followed by a save that failed
C12_Witness ==
    /\ Len(db_log) = 3
    /\ db_log[1].video_id = Vid1 /\ db_log[1].returned = 1
    /\ db_log[2].video_id = Vid1 /\ db_log[2].returned = 2
    /\ db_log[1].result # db_log[2].result
    /\ db_log[2].chunks_processed = Some(1)
    /\ db_log[3].video_id = Vid1 /\ db_log[3].returned < 0
    /\ get_segmentation(db, Vid1).processing_status = "partial"

(***************************************************************************)
(* Further properties of segment_long_video                                *)
(***************************************************************************)
\* C13 (as stated): every Segmentation segment_long_video returns, from the
\* chunk loop or from the short-video fast path, has
\* total_segments = len(segments)
C13_TotalIsLength ==
    (Done /\ l_result.kind = "return") =>
        l_result.value.total_segments = Len(l_result.value.segments)

\* the fast path has returned an answer of the adapter
C13_Witness ==
    /\ Done
    /\ ~Chunked
    /\ l_result.kind = "return"
    /\ l_result.value.segments # <<>>

\* what the boundary rule lets chunks 1..k contribute: everything chunk 1
\* returned, and of chunk n >= 2 the segments with
\* start_time >= chunk_start + overlap_duration
RECURSIVE AccumulatedByRule(_)
AccumulatedByRule(k) ==
    IF k = 0 THEN <<>>
    ELSE LET Inside(seg) == seg.start_time >= calls[k].start + overlap_duration
         IN  AccumulatedByRule(k - 1) \o
             (IF calls[k].chunk = 1 THEN calls[k].segments
              ELSE SelectSeq(calls[k].segments, Inside))

\* the chunk loop has been entered
InChunkLoop == l_pc = "loop" \/ Chunked

\* C14: in a chunked run all_segments holds every segment of chunk 1 and, of
\* each later chunk, exactly the segments that start at or after
\* chunk_start + overlap_duration, which is the end of the chunk before it
C14_BoundaryInclusion ==
    InChunkLoop =>
        /\ all_segments = AccumulatedByRule(Len(calls))
        /\ \A k \in 2..Len(calls) :
               calls[k].start + overlap_duration = calls[k - 1].end

\* a later chunk returned one segment inside the overlap region, which was
\* dropped, and one starting exactly at the boundary, which was kept
C14_Witness ==
    /\ InChunkLoop
    /\ overlap_duration > 0
    /\ \E k \in 2..Len(calls) :
          /\ calls[k].ok
          /\ Len(calls[k].segments) = 2
          /\ calls[k].segments[1].start_time < calls[k].start + overlap_duration
          /\ calls[k].segments[2].start_time = calls[k].start + overlap_duration
          /\ Len(AccumulatedByRule(k)) = Len(AccumulatedByRule(k - 1)) + 1
          /\ \E i \in 1..Len(all_segments) :
                all_segments[i] = calls[k].segments[2]

\* the call was made with a non-empty transcript no longer than a chunk
OnFastPath ==
    /\ Done
    /\ transcript_snippets # <<>>
    /\ DurationOf(transcript_snippets) <= chunk_duration

\* C15: a call with total_duration <= chunk_duration makes one adapter call,
\* for the video as a whole, not for a part; the loop is not entered, and the
\* adapter's answer is returned as it is, not merged and not recounted
C15_FastPathUnchanged ==
    OnFastPath =>
        /\ Len(calls) = 1
        /\ calls[1].chunk = 0
        /\ calls[1].label = video_id
        /\ calls[1].start = 0
        /\ calls[1].end = DurationOf(transcript_snippets)
        /\ all_segments = <<>>
        /\ chunk_number = 0
        /\ calls[1].ok =>
              l_result = Returned(VideoSegmentation(calls[1].result_video_id,
                             calls[1].segments, calls[1].total_segments,
                             calls[1].topic))

\* a transcript exactly as long as a chunk, answered with the same span
\* listed twice, which the merge engine would have reduced to one segment
C15_Witness ==
    /\ OnFastPath
    /\ DurationOf(transcript_snippets) = chunk_duration
    /\ calls[1].ok
    /\ Len(l_result.value.segments) = 2
    /\ Len(merge_similar_segments(l_result.value.segments)) = 1

\* C16: a call with no snippets raises the empty-input error, having made
\* no adapter call and accumulated nothing
C16_EmptyInputRaises ==
    (Done /\ transcript_snippets = <<>>) =>
        /\ l_result.kind = "raise"
        /\ l_result.error.kind = "empty_input"
        /\ l_result.error.message = NoSnippetsMessage
        /\ calls = <<>>
        /\ all_segments = <<>>

\* the call with no snippets has ended
C16_Witness ==
    Done /\ transcript_snippets = <<>> /\ l_result.kind = "raise"

(***************************************************************************)
(* Properties of format_transcript_snippets                                *)
(***************************************************************************)
FormatDone == f_pc = "done" /\ f_out # None

\* the returned text ends with the truncation marker line
FormatTruncated == EndsWith(f_out.text, TruncationMarker)

\* the returned text up to the truncation marker line, or all of it
TextBeforeMarker ==
    IF FormatTruncated
    THEN SubSeq(f_out.text, 1, Len(f_out.text) - Len(TruncationMarker))
    ELSE f_out.text

\* the rendered lines of the snippets, each "[MM:SS] text"
RenderedLineLengths ==
    { Len(FormatLine(f_in.snippets[i])) : i \in 1..Len(f_in.snippets) }

\* C17: the text before the truncation marker, separators included, is
\* never longer than max_chars plus one character, and so never exceeds
\* max_chars by more than a rendered line, which has at least 8 characters
C17_WindowingBound ==
    FormatDone =>
        /\ Len(TextBeforeMarker) <= f_in.max_chars + 1
        /\ \A n \in RenderedLineLengths : n >= 8

\* a truncated text whose lines and separators before the marker take
\* max_chars + 1 characters
C17_Witness ==
    /\ FormatDone
    /\ FormatTruncated
    /\ Len(f_in.snippets) = 3
    /\ Len(TextBeforeMarker) = f_in.max_chars + 1
    /\ Len(TextBeforeMarker) > 20

(***************************************************************************)
(* Properties of are_topics_similar                                        *)
(***************************************************************************)
SimilarDone == f_pc = "done" /\ f_out # None

\* |A n B| and |A u B| over the lower-cased key_topics of the two segments
TopicsInCommon ==
    Cardinality(LowerTopics(f_in.seg1) \cap LowerTopics(f_in.seg2))

TopicsInAll ==
    Cardinality(LowerTopics(f_in.seg1) \cup LowerTopics(f_in.seg2))

\* C18: the answer is the same in both orders; the similarity
\* |A n B| / |A u B| lies in [0, 1]; when either topic set is empty the
\* answer is false, and when neither is the divisor is positive; a non-empty
\* pair is similar exactly when the similarity reaches the threshold
C18_JaccardSymmetricBounded ==
    SimilarDone =>
        /\ f_out.forward = f_out.backward
        /\ 0 <= TopicsInCommon
        /\ TopicsInCommon <= TopicsInAll
        /\ (f_in.seg1.key_topics = <<>> \/ f_in.seg2.key_topics = <<>>)
              => (~f_out.forward /\ ~f_out.backward)
        /\ (f_in.seg1.key_topics # <<>> /\ f_in.seg2.key_topics # <<>>)
              => /\ TopicsInAll > 0
                 /\ f_out.forward <=>
                        (100 * TopicsInCommon >= f_in.threshold * TopicsInAll)

\* one topic set strictly inside the other, up to case, at similarity 1/2
C18_Witness ==
    /\ SimilarDone
    /\ f_in.threshold = 50
    /\ f_in.seg1.key_topics = << <<"x">> >>
    /\ f_in.seg2.key_topics = << <<"X">>, <<"y">> >>
    /\ f_out.forward
    /\ f_out.backward

(***************************************************************************)
(* Properties of the merge engine's rules                                  *)
(***************************************************************************)
Merged == m_pc # "start"

\* the input ordered as sorted() orders it, for two segments
PairInOrder ==
    IF m_in[2].start_time < m_in[1].start_time
    THEN <<m_in[2], m_in[1]>>
    ELSE m_in

\* the input holds three segments in order of start_time
ThreeInOrder ==
    /\ Len(m_in) = 3
    /\ m_in[1].start_time <= m_in[2].start_time
    /\ m_in[2].start_time <= m_in[3].start_time

\* gap <= 300 s and Jaccard similarity >= 0.5, or a marker in next's title
ContinuationCondition(current, next_seg) ==
    \/ /\ next_seg.start_time - current.end_time <= 300
       /\ LowerTopics(current) # {}
       /\ LowerTopics(next_seg) # {}
       /\ 2 * Cardinality(LowerTopics(current) \cap LowerTopics(next_seg))
             >= Cardinality(LowerTopics(current) \cup LowerTopics(next_seg))
    \/ \E marker \in ContinuationMarkers :
          Contains(Lower(next_seg.title), marker)

\* the summary of a combined segment, joined by one space and then either
\* stripped of surrounding whitespace or left as joined
JoinedSummary(current, next_seg, stripped) ==
    LET joined == current.summary \o <<" ">> \o next_seg.summary
    IN  IF stripped THEN Strip(joined) ELSE joined

\* out is the single segment the continuation rule describes
IsCombinationOf(out, current, next_seg, stripped) ==
    /\ out.title = current.title
    /\ out.difficulty_level = current.difficulty_level
    /\ out.start_time = current.start_time
    /\ out.end_time = next_seg.end_time
    /\ Range(out.key_topics) =
          Range(current.key_topics) \cup Range(next_seg.key_topics)
    /\ Len(out.key_topics) = Cardinality(Range(out.key_topics))
    /\ out.summary = JoinedSummary(current, next_seg, stripped)

ExpectedCombination(current, next_seg) ==
    [ title            |-> current.title,
      summary          |-> JoinedSummary(current, next_seg, TRUE),
      start_time       |-> current.start_time,
      end_time         |-> next_seg.end_time,
      key_topics       |-> Dedup(current.key_topics \o next_seg.key_topics),
      difficulty_level |-> current.difficulty_level ]

ContinuationRule(stripped) ==
    /\ (Merged /\ Len(m_in) = 2
          /\ PairInOrder[2].start_time >= PairInOrder[1].end_time)
       => LET current == PairInOrder[1]
              next_seg == PairInOrder[2]
          IN  IF ContinuationCondition(current, next_seg)
              THEN /\ Len(m_out1) = 1
                   /\ IsCombinationOf(m_out1[1], current, next_seg, stripped)
              ELSE m_out1 = <<current, next_seg>>
    /\ (Merged /\ ThreeInOrder
          /\ m_in[2].start_time >= m_in[1].end_time
          /\ ContinuationCondition(m_in[1], m_in[2]))
       => SameSegments(m_out1,
              merge_similar_segments(
                  <<ExpectedCombination(m_in[1], m_in[2]), m_in[3]>>))

\* C19 (as stated): two consecutive segments that do not overlap are
\* combined exactly when the gap is at most 300 s with Jaccard similarity
\* at least 0.5, or next's title holds a continuation marker; the combined
\* segment has current's title, difficulty and start, next's end, the union
\* of the topics and summary = current.summary + ' ' + next.summary, and is
\* what the following segment is compared with
C19_SummaryJoinedBySpace == ContinuationRule(FALSE)

\* C19 (amended): the same, with the joined summary stripped of leading and
\* trailing whitespace
C19_ContinuationRule == ContinuationRule(TRUE)

\* a segment with an empty summary combined, across a gap of more than
\* 300 s and without common topics, with a successor titled "... PART 2"
C19_Witness ==
    /\ Merged
    /\ Len(m_in) = 2
    /\ PairInOrder[1].summary = <<>>
    /\ PairInOrder[2].start_time - PairInOrder[1].end_time > 300
    /\ PairInOrder[2].title = TitlePart2
    /\ Len(m_out1) = 1
    /\ m_out1[1].summary = PairInOrder[2].summary

\* C20: of two segments of which the second starts before the first ends,
\* exactly one is kept, unchanged: the second if its
\* len(summary) + len(key_topics) is strictly larger, else the first; and
\* the kept one is what the following segment is compared with
C20_OverlapRule ==
    /\ (Merged /\ Len(m_in) = 2
          /\ PairInOrder[2].start_time < PairInOrder[1].end_time)
       => LET current == PairInOrder[1]
              next_seg == PairInOrder[2]
              next_won == Len(next_seg.summary) + Len(next_seg.key_topics)
                          > Len(current.summary) + Len(current.key_topics)
          IN  m_out1 = << IF next_won THEN next_seg ELSE current >>
    /\ (Merged /\ ThreeInOrder /\ m_in[2].start_time < m_in[1].end_time)
       => LET next_won == Len(m_in[2].summary) + Len(m_in[2].key_topics)
                          > Len(m_in[1].summary) + Len(m_in[1].key_topics)
              kept == IF next_won THEN m_in[2] ELSE m_in[1]
          IN  SameSegments(m_out1, merge_similar_segments(<<kept, m_in[3]>>))

\* a tie between two overlapping segments that differ: the first is kept
C20_Witness ==
    /\ Merged
    /\ Len(m_in) = 2
    /\ m_in[1].start_time < m_in[2].start_time
    /\ m_in[2].start_time < m_in[1].end_time
    /\ Len(m_in[1].summary) # Len(m_in[2].summary)
    /\ Len(m_in[1].summary) + Len(m_in[1].key_topics)
          = Len(m_in[2].summary) + Len(m_in[2].key_topics)
    /\ m_out1 = <<m_in[1]>>

(***************************************************************************)
(* Properties of the chunk plan                                            *)
(***************************************************************************)
\* C21: while no adapter call has failed, the n-th window starts at
\* (n-1) * (chunk_duration - overlap_duration) and ends at
\* min(start + chunk_duration, total_duration); consecutive windows share
\* exactly overlap_duration seconds, and a window narrower than
\* chunk_duration is the last one of the run
C21_ChunkPlanShape ==
    (InChunkLoop /\ AllCallsOk) =>
        /\ \A n \in 1..Len(calls) :
              /\ calls[n].chunk = n
              /\ calls[n].start = (n - 1) * (chunk_duration - overlap_duration)
              /\ calls[n].end =
                    IF calls[n].start + chunk_duration < total_duration
                    THEN calls[n].start + chunk_duration
                    ELSE total_duration
        /\ \A n \in 1..(Len(calls) - 1) :
              /\ calls[n].end - calls[n + 1].start = overlap_duration
              /\ calls[n].start <= calls[n + 1].start
              /\ calls[n].end <= calls[n + 1].end
              /\ calls[n].end - calls[n].start = chunk_duration
        /\ \A n \in 1..Len(calls) :
              (calls[n].end - calls[n].start < chunk_duration)
                  => (Done /\ n = Len(calls))

\* 7200 s with 3600/300: [0,3600], [3300,6900], [6600,7200]
C21_Witness ==
    /\ Chunked
    /\ AllCallsOk
    /\ total_duration = 7200
    /\ chunk_duration = 3600
    /\ overlap_duration = 300
    /\ Len(calls) = 3
    /\ <<calls[1].start, calls[1].end>> = <<0, 3600>>
    /\ <<calls[2].start, calls[2].end>> = <<3300, 6900>>
    /\ <<calls[3].start, calls[3].end>> = <<6600, 7200>>

(***************************************************************************)
(* Properties of the order of adapter calls and of termination             *)
(***************************************************************************)
\* "{video_id} (part n)"
ExpectedPartLabel(n) ==
    video_id \o <<" ","(","p","a","r","t"," ">>
             \o (IF n < 10 THEN <<DigitChars[n + 1]>> ELSE IntToStr(n))
             \o <<")">>

\* an adapter call is made in this step of the chunk loop
CallsInLoop == l_pc = "loop" /\ calls' # calls

\* C22: in the chunk loop every step adds at most one adapter call at the
\* end of the calls made so far; the call added is for the chunk number
\* after the last one called, starting at 1, labelled "{video_id} (part n)",
\* and is made only when every earlier call has returned without a failure
C22_CallsInOrderStopAtFailure ==
    [][ /\ Len(calls') \in {Len(calls), Len(calls) + 1}
        /\ SubSeq(calls', 1, Len(calls)) = calls
        /\ CallsInLoop =>
              /\ calls'[Len(calls')].chunk = Len(calls) + 1
              /\ calls'[Len(calls')].label = ExpectedPartLabel(Len(calls) + 1)
              /\ \A i \in 1..Len(calls) :
                    /\ calls[i].ok
                    /\ calls[i].chunk = i
                    /\ calls[i].chunk < calls'[Len(calls')].chunk
      ]_vars

\* a run whose third call failed after two calls that returned
C22_Witness ==
    /\ Chunked
    /\ Len(calls) = 3
    /\ calls[1].ok
    /\ calls[2].ok
    /\ ~calls[3].ok
    /\ calls[3].label = ExpectedPartLabel(3)

\* C23: a call with 0 <= overlap_duration < chunk_duration ends, returning
\* or raising; chunk_start grows with every iteration of the loop that the
\* adapter call did not end, and the loop makes at most total_chunks adapter
\* calls
C23_Terminates ==
    /\ <>Done
    /\ [][ (l_pc = "loop" /\ calls' # calls /\ calls'[Len(calls')].ok)
              => chunk_start' > chunk_start ]_vars
    /\ [](InChunkLoop => Len(calls) <= total_chunks)

\* a run that made as many calls as total_chunks, the last of which failed
C23_Witness ==
    /\ Chunked
    /\ 0 <= overlap_duration
    /\ overlap_duration < chunk_duration
    /\ total_chunks >= 3
    /\ Len(calls) = total_chunks
    /\ ~LastCall.ok

(***************************************************************************)
(* Properties of the window filter                                         *)
(***************************************************************************)
\* the snippets with start_time <= snippet.start < end_time, in their order
SnippetsInWindow ==
    LET InWindow(snippet) ==
            /\ f_in.start_time <= snippet.start
            /\ f_in.end_time # None => snippet.start < f_in.end_time.some
    IN  SelectSeq(f_in.snippets, InWindow)

\* one rendered line per snippet of the window, joined by newlines
WindowLines ==
    JoinLines([ i \in 1..Len(SnippetsInWindow) |->
                    FormatLine(SnippetsInWindow[i]) ])

\* C24: for snippets ordered by start, a text that was not truncated is the
\* rendered lines of exactly the snippets with
\* start_time <= snippet.start < end_time, in the original order, and is
\* empty when there is no such snippet
C24_WindowFilter ==
    (FormatDone /\ ~FormatTruncated) =>
        /\ f_out.text = WindowLines
        /\ SnippetsInWindow = <<>> => f_out.text = <<>>

\* of snippets at 0, 5 and 10 the window [5, 10) renders the one at 5, no
\* other
C24_Witness ==
    /\ FormatDone
    /\ ~FormatTruncated
    /\ f_in.start_time = 5
    /\ f_in.end_time = Some(10)
    /\ Len(f_in.snippets) = 3
    /\ f_in.snippets[1].start = 0
    /\ f_in.snippets[2].start = 5
    /\ f_in.snippets[3].start = 10
    /\ f_out.text = FormatLine(f_in.snippets[2])

(***************************************************************************)
(* Properties of the partial-progress annotation at the endpoint           *)
(***************************************************************************)
\* the endpoint's call of segment_long_video has returned after an adapter
\* failure ended the chunk loop
TruncatedRun ==
    /\ e_pc = "segmenting"
    /\ l_pc = "done"
    /\ total_duration > chunk_duration
    /\ l_result.kind = "return"
    /\ calls # <<>>
    /\ ~LastCall.ok

\* the number of chunks whose adapter call returned
SucceededChunks == Cardinality({ i \in 1..Len(calls) : calls[i].ok })

\* "[Partial: X/Y chunks processed" for the scheduler's X and Y
ExpectedAnnotation ==
    <<"[","P","a","r","t","i","a","l",":"," ">>
    \o IntToStr(SucceededChunks) \o <<"/">> \o IntToStr(total_chunks)
    \o <<" ","c","h","u","n","k","s"," ","p","r","o","c","e","s","s","e","d">>

\* the response to a truncated run is a 200 that carries the annotation, and
\* the counts the handler parsed from it are the scheduler's
TruncatedRunAnswered ==
    /\ resp'.status = 200
    /\ ~resp'.from_cache
    /\ Contains(resp'.body.overall_topic, ExpectedAnnotation)
    /\ req'.save_called
    /\ ChunkCounts(TRUE, total_duration, l_result.value.overall_topic)
          = [ chunks_processed |-> Some(SucceededChunks),
              total_chunks |-> Some(total_chunks) ]

\* the segmentation now stored for the video is the run's, with the
\* scheduler's counts
TruncatedRunStored ==
    LET row == get_segmentation(db', video_id)
    IN  /\ row # None
        /\ row.id = req'.saved_id
        /\ row.overall_topic = l_result.value.overall_topic
        /\ row.chunks_processed = Some(SucceededChunks)
        /\ row.total_chunks = Some(total_chunks)

C26_SingletonAcrossThreads ==
    /\ instances <= 1
    /\ \A i \in 1..Len(returned) : \A j \in 1..Len(returned) :
           returned[i].instance = returned[j].instance

\* two threads have each finished a call of get_db, two instances were
\* constructed, and the two calls returned different ones
C26_Witness ==
    /\ instances = 2
    /\ Len(returned) = 2
    /\ returned[1].thread # returned[2].thread
    /\ returned[1].instance # returned[2].instance

(***************************************************************************)
(* Properties of the span covered by a merged list                         *)
(***************************************************************************)
\* the largest end_time of a list of segments, 0 for the empty list
LargestEnd(segments) ==
    IF segments = <<>> THEN 0
    ELSE LET ends == { segments[i].end_time : i \in 1..Len(segments) }
         IN  CHOOSE e \in ends : \A other \in ends : other <= e

\* every segment of the input ends after it starts
WellFormedInput ==
    \A i \in 1..Len(m_in) : m_in[i].start_time < m_in[i].end_time

\* C27 (as stated): the largest end_time among the segments returned by
\* merge_similar_segments equals the largest end_time among its input
C27_MergeKeepsLargestEnd ==
    (Merged /\ WellFormedInput) => LargestEnd(m_out1) = LargestEnd(m_in)

\* the segment that ends last overlaps the segment accumulated before it and
\* is the less rich of the two: the merged list ends before it did
C27_Witness ==
    /\ Merged
    /\ WellFormedInput
    /\ Len(m_in) = 3
    /\ Len(m_out1) = 1
    /\ LargestEnd(m_in) = m_in[3].end_time
    /\ m_in[3].start_time < m_out1[1].end_time
    /\ m_out1[1].end_time < m_in[3].end_time
    /\ LargestEnd(m_out1) < LargestEnd(m_in)

(***************************************************************************)
(* Properties of the windows as a cover of the transcript                  *)
(***************************************************************************)
\* the snippet is rendered for the window of the k-th adapter call: it is
\* not dropped by the time filter of format_transcript_snippets
PassesWindow(snippet, k) ==
    format_transcript_snippets(<<snippet>>, 15000, calls[k].start,
                               Some(calls[k].end)) # <<>>

\* the snippets that no window of the run renders
SkippedSnippets ==
    { i \in 1..Len(transcript_snippets) :
        \A k \in 1..Len(calls) : ~PassesWindow(transcript_snippets[i], k) }

\* C28 (as stated): in a chunked run without failures over a transcript
\* ordered by start with durations >= 0, every snippet's start lies in
\* [chunk_start, chunk_end) of some processed chunk, so every snippet passes
\* the time filter of at least one window
C28_NoSnippetSkipped ==
    (Chunked /\ AllCallsOk) =>
        /\ \A i \in 1..Len(transcript_snippets) :
              \E k \in 1..Len(calls) :
                  /\ calls[k].start <= transcript_snippets[i].start
                  /\ transcript_snippets[i].start < calls[k].end
        /\ SkippedSnippets = {}

\* a run without failures over a transcript whose last snippet has duration
\* 0: that snippet starts at total_duration, the end of the last window, and
\* no window renders it
C28_Witness ==
    /\ Chunked
    /\ AllCallsOk
    /\ l_result.kind = "return"
    /\ total_duration = 7200
    /\ transcript_snippets[Len(transcript_snippets)].duration = 0
    /\ transcript_snippets[Len(transcript_snippets)].start = LastCall.end
    /\ SkippedSnippets = {Len(transcript_snippets)}

(***************************************************************************)
(* Properties of save_segmentation as a transaction                        *)
(***************************************************************************)
\* the rows of the segments table that belong to a segmentation
SegmentRowsOf(d, segmentation_id) ==
    LET Belongs(row) == row.segmentation_id = segmentation_id
    IN  SelectSeq(d.segments, Belongs)

\* the finished calls that returned an id
SucceededSaves == { i \in 1..Len(s_log) : s_log[i].returned > 0 }

\* the segments table holds this many rows when it holds one per segment of
\* every call that returned an id
RECURSIVE SegmentsOfSucceeded(_)
SegmentsOfSucceeded(n) ==
    IF n = 0 THEN 0
    ELSE SegmentsOfSucceeded(n - 1)
         + (IF n \in SucceededSaves THEN Len(s_log[n].result.segments) ELSE 0)

\* C29 (as stated): once every call has returned, a call in which an insert
\* failed returned -1 and left no row, and a call without a failure returned
\* a positive id under which the tables hold its segmentation row and one
\* segments row per segment: the tables hold the rows of the calls that
\* returned an id and no others
C29_SaveAllOrNothing ==
    (CallsInProgress = {}) =>
        /\ \A i \in 1..Len(s_log) :
              (s_log[i].failing_insert # 0) <=> (s_log[i].returned = 0 - 1)
        /\ Len(db.segmentations) = Cardinality(SucceededSaves)
        /\ Len(db.segments) = SegmentsOfSucceeded(Len(s_log))
        /\ \A i \in SucceededSaves :
              LET rows == SegmentRowsOf(db, s_log[i].returned)
                  n == Len(s_log[i].result.segments)
              IN  /\ \E k \in 1..Len(db.segmentations) :
                        /\ db.segmentations[k].id = s_log[i].returned
                        /\ db.segmentations[k].video_id = s_log[i].video_id
                  /\ Len(rows) = n
                  /\ \A k \in 1..n :
                        rows[k] = SegmentRow(s_log[i].returned,
                                      s_log[i].video_id,
                                      s_log[i].result.segments[k])

\* one thread's second segment insert failed after another thread's commit:
\* the call returned -1, and its segmentation row and its first segment row
\* are in the tables
C29_Witness ==
    /\ CallsInProgress = {}
    /\ Len(s_log) = 2
    /\ s_log[1].returned = 2
    /\ s_log[2].returned = 0 - 1
    /\ s_log[2].failing_insert = 3
    /\ s_log[1].thread # s_log[2].thread
    /\ Len(db.segmentations) = 2
    /\ db.segmentations[1].video_id = s_log[2].video_id
    /\ SegmentRowsOf(db, 1)
          = << SegmentRow(1, s_log[2].video_id, s_log[2].result.segments[1]) >>

(***************************************************************************)
(* Properties of the two segment queries                                   *)
(***************************************************************************)
\* the time bounds and the search words the queries are called with
QueryTimes == {0, 3600, 7200}

Queries == { <<"a">>, <<"B">>, <<"x">>, <<"z">>, <<"q">> }

\* the segmentations stored for a video
SegmentationsOf(vid) ==
    LET IsVid(row) == row.video_id = vid
    IN  SelectSeq(db.segmentations, IsVid)

\* the segments of the segmentation get_segmentation returns for the video,
\* as the queries present them
LatestSegments(vid) ==
    LET latest == get_segmentation(db, vid).segmentation.segments
    IN  [i \in 1..Len(latest) |->
            [ title |-> latest[i].title, start_time |-> latest[i].start_time,
              end_time |-> latest[i].end_time, summary |-> latest[i].summary,
              key_topics |-> latest[i].key_topics,
              difficulty |-> latest[i].difficulty_level ]]

\* the segments of the latest segmentation that overlap the range
LatestInRange(vid, start_time, end_time) ==
    LET Hit(seg) == seg.end_time >= start_time /\ seg.start_time <= end_time
    IN  SortByStart(SelectSeq(LatestSegments(vid), Hit))

\* the segments of the latest segmentation that contain the query
LatestMatching(vid, query) ==
    LET Hit(seg) == \/ Like(seg.title, query)
                    \/ Like(seg.summary, query)
                    \/ Like(JsonDumps(seg.key_topics), query)
    IN  SortByStart(SelectSeq(LatestSegments(vid), Hit))

\* C30 (as stated): for a video segmented more than once, the two queries
\* return the matching segments of the segmentation get_segmentation
\* returns, each once, ordered by start_time
C30_QueriesUseLatestSegmentation ==
    \A vid \in DbVideos :
        Len(SegmentationsOf(vid)) >= 2 =>
            /\ \A start_time \in QueryTimes, end_time \in QueryTimes :
                  get_segments_by_time(db, vid, start_time, end_time)
                      = LatestInRange(vid, start_time, end_time)
            /\ \A query \in Queries :
                  search_segments(db, vid, query) = LatestMatching(vid, query)

\* a truncated result of one segment, then a re-run of two segments, both
\* saved for the same video: the query over the whole video returns the
\* first segment twice, and the search returns it twice
C30_Witness ==
    /\ Len(db_log) = 2
    /\ db_log[1].video_id = Vid1 /\ db_log[2].video_id = Vid1
    /\ db_log[1].returned = 1 /\ db_log[2].returned = 2
    /\ db_log[1].chunks_processed = Some(1)
    /\ Len(db_log[2].result.segments) = 2
    /\ get_segmentation(db, Vid1).id = 2
    /\ Len(LatestInRange(Vid1, 0, 7200)) = 2
    /\ LET found == get_segments_by_time(db, Vid1, 0, 7200)
       IN  /\ Len(found) = 3
           /\ found[1] = found[2]
           /\ found[1].title = TitleA
    /\ Len(search_segments(db, Vid1, <<"x">>)) = 2
    /\ Len(LatestMatching(Vid1, <<"x">>)) = 1


====
